---- MODULE Spec2Model ----
(***************************************************************************)
(* State-machine model of sort-pohotos.py: the producer (main) and the     *)
(* resolver worker process (gps_to_location), the two queues between them, *)
(* the shared location cache, the alias tables and the persisted files.    *)
(*                                                                         *)
(* Strings whose characters matter (place names, alias sources, dates) are *)
(* sequences of one-character strings, so that str.lower, str.upper,       *)
(* str.count and ", ".join are computed and not assumed.                   *)
(***************************************************************************)
EXTENDS Integers, Sequences, FiniteSets, TLC

\* ------------------------------------------------------------------ bounds
\* Largest number of media items exiftool returns with GPS data and a date.
MaxItems == 3
\* Largest time (in ticks) that passes between two readings of the wall clock
\* by the worker's rate limiter, beyond what it sleeps itself: the limiter is
\* entered at once or half a second after the previous reading.
MaxDelay == 1
\* Clock resolution: ticks per second (the limiter's interval is 1 second).
TicksPerSecond == 2
\* Wall-clock reading when the worker starts; time.time() is seconds since the
\* epoch, so far more than one second after last_request_time = 0.
StartTime == 4
\* Largest number of media items of two runs taken side by side.
PairMaxItems == 2

\* ------------------------------------------------------------------ strings
\* A string is a sequence of characters, a character a one-character string.
\* A character the TLA+ parser does not take in a string of a module (the
\* grave accent, and every character with a UTF-16 code unit above U+00FF
\* whose low byte is below 0x80) is written by its code point: "U+0178" is
\* the character U+0178.
\*
\* str.lower() and str.upper() follow the Unicode case mappings of the
\* Unicode database of the interpreter (version 14.0.0, Python 3.11); the
\* tables below hold them for every character that has a mapping.

\* The characters with a one-character lower case, and that lower case.
LowerPairs ==
    <<
       <<"A", "a">>, <<"B", "b">>, <<"C", "c">>, <<"D", "d">>, <<"E", "e">>,
       <<"F", "f">>, <<"G", "g">>, <<"H", "h">>, <<"I", "i">>, <<"J", "j">>,
       <<"K", "k">>, <<"L", "l">>, <<"M", "m">>, <<"N", "n">>, <<"O", "o">>,
       <<"P", "p">>, <<"Q", "q">>, <<"R", "r">>, <<"S", "s">>, <<"T", "t">>,
       <<"U", "u">>, <<"V", "v">>, <<"W", "w">>, <<"X", "x">>, <<"Y", "y">>,
       <<"Z", "z">>, <<"À", "à">>, <<"Á", "á">>, <<"Â", "â">>, <<"Ã", "ã">>,
       <<"Ä", "ä">>, <<"Å", "å">>, <<"Æ", "æ">>, <<"Ç", "ç">>, <<"È", "è">>,
       <<"É", "é">>, <<"Ê", "ê">>, <<"Ë", "ë">>, <<"Ì", "ì">>, <<"Í", "í">>,
       <<"Î", "î">>, <<"Ï", "ï">>, <<"Ð", "ð">>, <<"Ñ", "ñ">>, <<"Ò", "ò">>,
       <<"Ó", "ó">>, <<"Ô", "ô">>, <<"Õ", "õ">>, <<"Ö", "ö">>, <<"Ø", "ø">>,
       <<"Ù", "ù">>, <<"Ú", "ú">>, <<"Û", "û">>, <<"Ü", "ü">>, <<"Ý", "ý">>,
       <<"Þ", "þ">>, <<"U+0100", "U+0101">>, <<"U+0102", "U+0103">>,
       <<"U+0104", "U+0105">>, <<"U+0106", "U+0107">>,
       <<"U+0108", "U+0109">>, <<"U+010A", "U+010B">>,
       <<"U+010C", "U+010D">>, <<"U+010E", "U+010F">>,
       <<"U+0110", "U+0111">>, <<"U+0112", "U+0113">>,
       <<"U+0114", "U+0115">>, <<"U+0116", "U+0117">>,
       <<"U+0118", "U+0119">>, <<"U+011A", "U+011B">>,
       <<"U+011C", "U+011D">>, <<"U+011E", "U+011F">>,
       <<"U+0120", "U+0121">>, <<"U+0122", "U+0123">>,
       <<"U+0124", "U+0125">>, <<"U+0126", "U+0127">>,
       <<"U+0128", "U+0129">>, <<"U+012A", "U+012B">>,
       <<"U+012C", "U+012D">>, <<"U+012E", "U+012F">>,
       <<"U+0132", "U+0133">>, <<"U+0134", "U+0135">>,
       <<"U+0136", "U+0137">>, <<"U+0139", "U+013A">>,
       <<"U+013B", "U+013C">>, <<"U+013D", "U+013E">>,
       <<"U+013F", "U+0140">>, <<"U+0141", "U+0142">>,
       <<"U+0143", "U+0144">>, <<"U+0145", "U+0146">>,
       <<"U+0147", "U+0148">>, <<"U+014A", "U+014B">>,
       <<"U+014C", "U+014D">>, <<"U+014E", "U+014F">>,
       <<"U+0150", "U+0151">>, <<"U+0152", "U+0153">>,
       <<"U+0154", "U+0155">>, <<"U+0156", "U+0157">>,
       <<"U+0158", "U+0159">>, <<"U+015A", "U+015B">>,
       <<"U+015C", "U+015D">>, <<"U+015E", "U+015F">>,
       <<"U+0160", "U+0161">>, <<"U+0162", "U+0163">>,
       <<"U+0164", "U+0165">>, <<"U+0166", "U+0167">>,
       <<"U+0168", "U+0169">>, <<"U+016A", "U+016B">>,
       <<"U+016C", "U+016D">>, <<"U+016E", "U+016F">>,
       <<"U+0170", "U+0171">>, <<"U+0172", "U+0173">>,
       <<"U+0174", "U+0175">>, <<"U+0176", "U+0177">>, <<"U+0178", "ÿ">>,
       <<"U+0179", "U+017A">>, <<"U+017B", "U+017C">>,
       <<"U+017D", "U+017E">>, <<"Ɓ", "U+0253">>, <<"Ƃ", "ƃ">>, <<"Ƅ", "ƅ">>,
       <<"Ɔ", "U+0254">>, <<"Ƈ", "ƈ">>, <<"Ɖ", "U+0256">>, <<"Ɗ", "U+0257">>,
       <<"Ƌ", "ƌ">>, <<"Ǝ", "ǝ">>, <<"Ə", "U+0259">>, <<"Ɛ", "U+025B">>,
       <<"Ƒ", "ƒ">>, <<"Ɠ", "U+0260">>, <<"Ɣ", "U+0263">>, <<"Ɩ", "U+0269">>,
       <<"Ɨ", "U+0268">>, <<"Ƙ", "ƙ">>, <<"Ɯ", "U+026F">>, <<"Ɲ", "U+0272">>,
       <<"Ɵ", "U+0275">>, <<"Ơ", "ơ">>, <<"Ƣ", "ƣ">>, <<"Ƥ", "ƥ">>,
       <<"Ʀ", "ʀ">>, <<"Ƨ", "ƨ">>, <<"Ʃ", "ʃ">>, <<"Ƭ", "ƭ">>, <<"Ʈ", "ʈ">>,
       <<"Ư", "ư">>, <<"Ʊ", "ʊ">>, <<"Ʋ", "ʋ">>, <<"Ƴ", "ƴ">>, <<"Ƶ", "ƶ">>,
       <<"Ʒ", "ʒ">>, <<"Ƹ", "ƹ">>, <<"Ƽ", "ƽ">>, <<"Ǆ", "ǆ">>, <<"ǅ", "ǆ">>,
       <<"Ǉ", "ǉ">>, <<"ǈ", "ǉ">>, <<"Ǌ", "ǌ">>, <<"ǋ", "ǌ">>, <<"Ǎ", "ǎ">>,
       <<"Ǐ", "ǐ">>, <<"Ǒ", "ǒ">>, <<"Ǔ", "ǔ">>, <<"Ǖ", "ǖ">>, <<"Ǘ", "ǘ">>,
       <<"Ǚ", "ǚ">>, <<"Ǜ", "ǜ">>, <<"Ǟ", "ǟ">>, <<"Ǡ", "ǡ">>, <<"Ǣ", "ǣ">>,
       <<"Ǥ", "ǥ">>, <<"Ǧ", "ǧ">>, <<"Ǩ", "ǩ">>, <<"Ǫ", "ǫ">>, <<"Ǭ", "ǭ">>,
       <<"Ǯ", "ǯ">>, <<"Ǳ", "ǳ">>, <<"ǲ", "ǳ">>, <<"Ǵ", "ǵ">>, <<"Ƕ", "ƕ">>,
       <<"Ƿ", "ƿ">>, <<"Ǹ", "ǹ">>, <<"Ǻ", "ǻ">>, <<"Ǽ", "ǽ">>, <<"Ǿ", "ǿ">>,
       <<"U+0200", "U+0201">>, <<"U+0202", "U+0203">>,
       <<"U+0204", "U+0205">>, <<"U+0206", "U+0207">>,
       <<"U+0208", "U+0209">>, <<"U+020A", "U+020B">>,
       <<"U+020C", "U+020D">>, <<"U+020E", "U+020F">>,
       <<"U+0210", "U+0211">>, <<"U+0212", "U+0213">>,
       <<"U+0214", "U+0215">>, <<"U+0216", "U+0217">>,
       <<"U+0218", "U+0219">>, <<"U+021A", "U+021B">>,
       <<"U+021C", "U+021D">>, <<"U+021E", "U+021F">>, <<"U+0220", "ƞ">>,
       <<"U+0222", "U+0223">>, <<"U+0224", "U+0225">>,
       <<"U+0226", "U+0227">>, <<"U+0228", "U+0229">>,
       <<"U+022A", "U+022B">>, <<"U+022C", "U+022D">>,
       <<"U+022E", "U+022F">>, <<"U+0230", "U+0231">>,
       <<"U+0232", "U+0233">>, <<"U+023A", "U+2C65">>,
       <<"U+023B", "U+023C">>, <<"U+023D", "ƚ">>, <<"U+023E", "U+2C66">>,
       <<"U+0241", "U+0242">>, <<"U+0243", "ƀ">>, <<"U+0244", "ʉ">>,
       <<"U+0245", "ʌ">>, <<"U+0246", "U+0247">>, <<"U+0248", "U+0249">>,
       <<"U+024A", "U+024B">>, <<"U+024C", "U+024D">>,
       <<"U+024E", "U+024F">>, <<"U+0370", "U+0371">>,
       <<"U+0372", "U+0373">>, <<"U+0376", "U+0377">>, <<"U+037F", "ϳ">>,
       <<"Ά", "ά">>, <<"Έ", "έ">>, <<"Ή", "ή">>, <<"Ί", "ί">>, <<"Ό", "ό">>,
       <<"Ύ", "ύ">>, <<"Ώ", "ώ">>, <<"Α", "α">>, <<"Β", "β">>, <<"Γ", "γ">>,
       <<"Δ", "δ">>, <<"Ε", "ε">>, <<"Ζ", "ζ">>, <<"Η", "η">>, <<"Θ", "θ">>,
       <<"Ι", "ι">>, <<"Κ", "κ">>, <<"Λ", "λ">>, <<"Μ", "μ">>, <<"Ν", "ν">>,
       <<"Ξ", "ξ">>, <<"Ο", "ο">>, <<"Π", "π">>, <<"Ρ", "ρ">>, <<"Σ", "σ">>,
       <<"Τ", "τ">>, <<"Υ", "υ">>, <<"Φ", "φ">>, <<"Χ", "χ">>, <<"Ψ", "ψ">>,
       <<"Ω", "ω">>, <<"Ϊ", "ϊ">>, <<"Ϋ", "ϋ">>, <<"Ϗ", "ϗ">>, <<"Ϙ", "ϙ">>,
       <<"Ϛ", "ϛ">>, <<"Ϝ", "ϝ">>, <<"Ϟ", "ϟ">>, <<"Ϡ", "ϡ">>, <<"Ϣ", "ϣ">>,
       <<"Ϥ", "ϥ">>, <<"Ϧ", "ϧ">>, <<"Ϩ", "ϩ">>, <<"Ϫ", "ϫ">>, <<"Ϭ", "ϭ">>,
       <<"Ϯ", "ϯ">>, <<"ϴ", "θ">>, <<"Ϸ", "ϸ">>, <<"Ϲ", "ϲ">>, <<"Ϻ", "ϻ">>,
       <<"Ͻ", "U+037B">>, <<"Ͼ", "U+037C">>, <<"Ͽ", "U+037D">>,
       <<"U+0400", "U+0450">>, <<"U+0401", "U+0451">>,
       <<"U+0402", "U+0452">>, <<"U+0403", "U+0453">>,
       <<"U+0404", "U+0454">>, <<"U+0405", "U+0455">>,
       <<"U+0406", "U+0456">>, <<"U+0407", "U+0457">>,
       <<"U+0408", "U+0458">>, <<"U+0409", "U+0459">>,
       <<"U+040A", "U+045A">>, <<"U+040B", "U+045B">>,
       <<"U+040C", "U+045C">>, <<"U+040D", "U+045D">>,
       <<"U+040E", "U+045E">>, <<"U+040F", "U+045F">>,
       <<"U+0410", "U+0430">>, <<"U+0411", "U+0431">>,
       <<"U+0412", "U+0432">>, <<"U+0413", "U+0433">>,
       <<"U+0414", "U+0434">>, <<"U+0415", "U+0435">>,
       <<"U+0416", "U+0436">>, <<"U+0417", "U+0437">>,
       <<"U+0418", "U+0438">>, <<"U+0419", "U+0439">>,
       <<"U+041A", "U+043A">>, <<"U+041B", "U+043B">>,
       <<"U+041C", "U+043C">>, <<"U+041D", "U+043D">>,
       <<"U+041E", "U+043E">>, <<"U+041F", "U+043F">>,
       <<"U+0420", "U+0440">>, <<"U+0421", "U+0441">>,
       <<"U+0422", "U+0442">>, <<"U+0423", "U+0443">>,
       <<"U+0424", "U+0444">>, <<"U+0425", "U+0445">>,
       <<"U+0426", "U+0446">>, <<"U+0427", "U+0447">>,
       <<"U+0428", "U+0448">>, <<"U+0429", "U+0449">>,
       <<"U+042A", "U+044A">>, <<"U+042B", "U+044B">>,
       <<"U+042C", "U+044C">>, <<"U+042D", "U+044D">>,
       <<"U+042E", "U+044E">>, <<"U+042F", "U+044F">>,
       <<"U+0460", "U+0461">>, <<"U+0462", "U+0463">>,
       <<"U+0464", "U+0465">>, <<"U+0466", "U+0467">>,
       <<"U+0468", "U+0469">>, <<"U+046A", "U+046B">>,
       <<"U+046C", "U+046D">>, <<"U+046E", "U+046F">>,
       <<"U+0470", "U+0471">>, <<"U+0472", "U+0473">>,
       <<"U+0474", "U+0475">>, <<"U+0476", "U+0477">>,
       <<"U+0478", "U+0479">>, <<"U+047A", "U+047B">>,
       <<"U+047C", "U+047D">>, <<"U+047E", "U+047F">>, <<"Ҁ", "ҁ">>,
       <<"Ҋ", "ҋ">>, <<"Ҍ", "ҍ">>, <<"Ҏ", "ҏ">>, <<"Ґ", "ґ">>, <<"Ғ", "ғ">>,
       <<"Ҕ", "ҕ">>, <<"Җ", "җ">>, <<"Ҙ", "ҙ">>, <<"Қ", "қ">>, <<"Ҝ", "ҝ">>,
       <<"Ҟ", "ҟ">>, <<"Ҡ", "ҡ">>, <<"Ң", "ң">>, <<"Ҥ", "ҥ">>, <<"Ҧ", "ҧ">>,
       <<"Ҩ", "ҩ">>, <<"Ҫ", "ҫ">>, <<"Ҭ", "ҭ">>, <<"Ү", "ү">>, <<"Ұ", "ұ">>,
       <<"Ҳ", "ҳ">>, <<"Ҵ", "ҵ">>, <<"Ҷ", "ҷ">>, <<"Ҹ", "ҹ">>, <<"Һ", "һ">>,
       <<"Ҽ", "ҽ">>, <<"Ҿ", "ҿ">>, <<"Ӏ", "ӏ">>, <<"Ӂ", "ӂ">>, <<"Ӄ", "ӄ">>,
       <<"Ӆ", "ӆ">>, <<"Ӈ", "ӈ">>, <<"Ӊ", "ӊ">>, <<"Ӌ", "ӌ">>, <<"Ӎ", "ӎ">>,
       <<"Ӑ", "ӑ">>, <<"Ӓ", "ӓ">>, <<"Ӕ", "ӕ">>, <<"Ӗ", "ӗ">>, <<"Ә", "ә">>,
       <<"Ӛ", "ӛ">>, <<"Ӝ", "ӝ">>, <<"Ӟ", "ӟ">>, <<"Ӡ", "ӡ">>, <<"Ӣ", "ӣ">>,
       <<"Ӥ", "ӥ">>, <<"Ӧ", "ӧ">>, <<"Ө", "ө">>, <<"Ӫ", "ӫ">>, <<"Ӭ", "ӭ">>,
       <<"Ӯ", "ӯ">>, <<"Ӱ", "ӱ">>, <<"Ӳ", "ӳ">>, <<"Ӵ", "ӵ">>, <<"Ӷ", "ӷ">>,
       <<"Ӹ", "ӹ">>, <<"Ӻ", "ӻ">>, <<"Ӽ", "ӽ">>, <<"Ӿ", "ӿ">>,
       <<"U+0500", "U+0501">>, <<"U+0502", "U+0503">>,
       <<"U+0504", "U+0505">>, <<"U+0506", "U+0507">>,
       <<"U+0508", "U+0509">>, <<"U+050A", "U+050B">>,
       <<"U+050C", "U+050D">>, <<"U+050E", "U+050F">>,
       <<"U+0510", "U+0511">>, <<"U+0512", "U+0513">>,
       <<"U+0514", "U+0515">>, <<"U+0516", "U+0517">>,
       <<"U+0518", "U+0519">>, <<"U+051A", "U+051B">>,
       <<"U+051C", "U+051D">>, <<"U+051E", "U+051F">>,
       <<"U+0520", "U+0521">>, <<"U+0522", "U+0523">>,
       <<"U+0524", "U+0525">>, <<"U+0526", "U+0527">>,
       <<"U+0528", "U+0529">>, <<"U+052A", "U+052B">>,
       <<"U+052C", "U+052D">>, <<"U+052E", "U+052F">>,
       <<"U+0531", "U+0561">>, <<"U+0532", "U+0562">>,
       <<"U+0533", "U+0563">>, <<"U+0534", "U+0564">>,
       <<"U+0535", "U+0565">>, <<"U+0536", "U+0566">>,
       <<"U+0537", "U+0567">>, <<"U+0538", "U+0568">>,
       <<"U+0539", "U+0569">>, <<"U+053A", "U+056A">>,
       <<"U+053B", "U+056B">>, <<"U+053C", "U+056C">>,
       <<"U+053D", "U+056D">>, <<"U+053E", "U+056E">>,
       <<"U+053F", "U+056F">>, <<"U+0540", "U+0570">>,
       <<"U+0541", "U+0571">>, <<"U+0542", "U+0572">>,
       <<"U+0543", "U+0573">>, <<"U+0544", "U+0574">>,
       <<"U+0545", "U+0575">>, <<"U+0546", "U+0576">>,
       <<"U+0547", "U+0577">>, <<"U+0548", "U+0578">>,
       <<"U+0549", "U+0579">>, <<"U+054A", "U+057A">>,
       <<"U+054B", "U+057B">>, <<"U+054C", "U+057C">>,
       <<"U+054D", "U+057D">>, <<"U+054E", "U+057E">>,
       <<"U+054F", "U+057F">>, <<"U+0550", "ր">>, <<"U+0551", "ց">>,
       <<"U+0552", "ւ">>, <<"U+0553", "փ">>, <<"U+0554", "ք">>,
       <<"U+0555", "օ">>, <<"U+0556", "ֆ">>, <<"Ⴀ", "U+2D00">>,
       <<"Ⴁ", "U+2D01">>, <<"Ⴂ", "U+2D02">>, <<"Ⴃ", "U+2D03">>,
       <<"Ⴄ", "U+2D04">>, <<"Ⴅ", "U+2D05">>, <<"Ⴆ", "U+2D06">>,
       <<"Ⴇ", "U+2D07">>, <<"Ⴈ", "U+2D08">>, <<"Ⴉ", "U+2D09">>,
       <<"Ⴊ", "U+2D0A">>, <<"Ⴋ", "U+2D0B">>, <<"Ⴌ", "U+2D0C">>,
       <<"Ⴍ", "U+2D0D">>, <<"Ⴎ", "U+2D0E">>, <<"Ⴏ", "U+2D0F">>,
       <<"Ⴐ", "U+2D10">>, <<"Ⴑ", "U+2D11">>, <<"Ⴒ", "U+2D12">>,
       <<"Ⴓ", "U+2D13">>, <<"Ⴔ", "U+2D14">>, <<"Ⴕ", "U+2D15">>,
       <<"Ⴖ", "U+2D16">>, <<"Ⴗ", "U+2D17">>, <<"Ⴘ", "U+2D18">>,
       <<"Ⴙ", "U+2D19">>, <<"Ⴚ", "U+2D1A">>, <<"Ⴛ", "U+2D1B">>,
       <<"Ⴜ", "U+2D1C">>, <<"Ⴝ", "U+2D1D">>, <<"Ⴞ", "U+2D1E">>,
       <<"Ⴟ", "U+2D1F">>, <<"Ⴠ", "U+2D20">>, <<"Ⴡ", "U+2D21">>,
       <<"Ⴢ", "U+2D22">>, <<"Ⴣ", "U+2D23">>, <<"Ⴤ", "U+2D24">>,
       <<"Ⴥ", "U+2D25">>, <<"Ⴧ", "U+2D27">>, <<"Ⴭ", "U+2D2D">>,
       <<"Ꭰ", "U+AB70">>, <<"Ꭱ", "U+AB71">>, <<"Ꭲ", "U+AB72">>,
       <<"Ꭳ", "U+AB73">>, <<"Ꭴ", "U+AB74">>, <<"Ꭵ", "U+AB75">>,
       <<"Ꭶ", "U+AB76">>, <<"Ꭷ", "U+AB77">>, <<"Ꭸ", "U+AB78">>,
       <<"Ꭹ", "U+AB79">>, <<"Ꭺ", "U+AB7A">>, <<"Ꭻ", "U+AB7B">>,
       <<"Ꭼ", "U+AB7C">>, <<"Ꭽ", "U+AB7D">>, <<"Ꭾ", "U+AB7E">>,
       <<"Ꭿ", "U+AB7F">>, <<"Ꮀ", "ꮀ">>, <<"Ꮁ", "ꮁ">>, <<"Ꮂ", "ꮂ">>,
       <<"Ꮃ", "ꮃ">>, <<"Ꮄ", "ꮄ">>, <<"Ꮅ", "ꮅ">>, <<"Ꮆ", "ꮆ">>, <<"Ꮇ", "ꮇ">>,
       <<"Ꮈ", "ꮈ">>, <<"Ꮉ", "ꮉ">>, <<"Ꮊ", "ꮊ">>, <<"Ꮋ", "ꮋ">>, <<"Ꮌ", "ꮌ">>,
       <<"Ꮍ", "ꮍ">>, <<"Ꮎ", "ꮎ">>, <<"Ꮏ", "ꮏ">>, <<"Ꮐ", "ꮐ">>, <<"Ꮑ", "ꮑ">>,
       <<"Ꮒ", "ꮒ">>, <<"Ꮓ", "ꮓ">>, <<"Ꮔ", "ꮔ">>, <<"Ꮕ", "ꮕ">>, <<"Ꮖ", "ꮖ">>,
       <<"Ꮗ", "ꮗ">>, <<"Ꮘ", "ꮘ">>, <<"Ꮙ", "ꮙ">>, <<"Ꮚ", "ꮚ">>, <<"Ꮛ", "ꮛ">>,
       <<"Ꮜ", "ꮜ">>, <<"Ꮝ", "ꮝ">>, <<"Ꮞ", "ꮞ">>, <<"Ꮟ", "ꮟ">>, <<"Ꮠ", "ꮠ">>,
       <<"Ꮡ", "ꮡ">>, <<"Ꮢ", "ꮢ">>, <<"Ꮣ", "ꮣ">>, <<"Ꮤ", "ꮤ">>, <<"Ꮥ", "ꮥ">>,
       <<"Ꮦ", "ꮦ">>, <<"Ꮧ", "ꮧ">>, <<"Ꮨ", "ꮨ">>, <<"Ꮩ", "ꮩ">>, <<"Ꮪ", "ꮪ">>,
       <<"Ꮫ", "ꮫ">>, <<"Ꮬ", "ꮬ">>, <<"Ꮭ", "ꮭ">>, <<"Ꮮ", "ꮮ">>, <<"Ꮯ", "ꮯ">>,
       <<"Ꮰ", "ꮰ">>, <<"Ꮱ", "ꮱ">>, <<"Ꮲ", "ꮲ">>, <<"Ꮳ", "ꮳ">>, <<"Ꮴ", "ꮴ">>,
       <<"Ꮵ", "ꮵ">>, <<"Ꮶ", "ꮶ">>, <<"Ꮷ", "ꮷ">>, <<"Ꮸ", "ꮸ">>, <<"Ꮹ", "ꮹ">>,
       <<"Ꮺ", "ꮺ">>, <<"Ꮻ", "ꮻ">>, <<"Ꮼ", "ꮼ">>, <<"Ꮽ", "ꮽ">>, <<"Ꮾ", "ꮾ">>,
       <<"Ꮿ", "ꮿ">>, <<"Ᏸ", "ᏸ">>, <<"Ᏹ", "ᏹ">>, <<"Ᏺ", "ᏺ">>, <<"Ᏻ", "ᏻ">>,
       <<"Ᏼ", "ᏼ">>, <<"Ᏽ", "ᏽ">>, <<"Ა", "ა">>, <<"Ბ", "ბ">>, <<"Გ", "გ">>,
       <<"Დ", "დ">>, <<"Ე", "ე">>, <<"Ვ", "ვ">>, <<"Ზ", "ზ">>, <<"Თ", "თ">>,
       <<"Ი", "ი">>, <<"Კ", "კ">>, <<"Ლ", "ლ">>, <<"Მ", "მ">>, <<"Ნ", "ნ">>,
       <<"Ო", "ო">>, <<"Პ", "პ">>, <<"Ჟ", "ჟ">>, <<"Რ", "რ">>, <<"Ს", "ს">>,
       <<"Ტ", "ტ">>, <<"Უ", "უ">>, <<"Ფ", "ფ">>, <<"Ქ", "ქ">>, <<"Ღ", "ღ">>,
       <<"Ყ", "ყ">>, <<"Შ", "შ">>, <<"Ჩ", "ჩ">>, <<"Ც", "ც">>, <<"Ძ", "ძ">>,
       <<"Წ", "წ">>, <<"Ჭ", "ჭ">>, <<"Ხ", "ხ">>, <<"Ჯ", "ჯ">>, <<"Ჰ", "ჰ">>,
       <<"Ჱ", "ჱ">>, <<"Ჲ", "ჲ">>, <<"Ჳ", "ჳ">>, <<"Ჴ", "ჴ">>, <<"Ჵ", "ჵ">>,
       <<"Ჶ", "ჶ">>, <<"Ჷ", "ჷ">>, <<"Ჸ", "ჸ">>, <<"Ჹ", "ჹ">>, <<"Ჺ", "ჺ">>,
       <<"Ჽ", "ჽ">>, <<"Ჾ", "ჾ">>, <<"Ჿ", "ჿ">>, <<"U+1E00", "U+1E01">>,
       <<"U+1E02", "U+1E03">>, <<"U+1E04", "U+1E05">>,
       <<"U+1E06", "U+1E07">>, <<"U+1E08", "U+1E09">>,
       <<"U+1E0A", "U+1E0B">>, <<"U+1E0C", "U+1E0D">>,
       <<"U+1E0E", "U+1E0F">>, <<"U+1E10", "U+1E11">>,
       <<"U+1E12", "U+1E13">>, <<"U+1E14", "U+1E15">>,
       <<"U+1E16", "U+1E17">>, <<"U+1E18", "U+1E19">>,
       <<"U+1E1A", "U+1E1B">>, <<"U+1E1C", "U+1E1D">>,
       <<"U+1E1E", "U+1E1F">>, <<"U+1E20", "U+1E21">>,
       <<"U+1E22", "U+1E23">>, <<"U+1E24", "U+1E25">>,
       <<"U+1E26", "U+1E27">>, <<"U+1E28", "U+1E29">>,
       <<"U+1E2A", "U+1E2B">>, <<"U+1E2C", "U+1E2D">>,
       <<"U+1E2E", "U+1E2F">>, <<"U+1E30", "U+1E31">>,
       <<"U+1E32", "U+1E33">>, <<"U+1E34", "U+1E35">>,
       <<"U+1E36", "U+1E37">>, <<"U+1E38", "U+1E39">>,
       <<"U+1E3A", "U+1E3B">>, <<"U+1E3C", "U+1E3D">>,
       <<"U+1E3E", "U+1E3F">>, <<"U+1E40", "U+1E41">>,
       <<"U+1E42", "U+1E43">>, <<"U+1E44", "U+1E45">>,
       <<"U+1E46", "U+1E47">>, <<"U+1E48", "U+1E49">>,
       <<"U+1E4A", "U+1E4B">>, <<"U+1E4C", "U+1E4D">>,
       <<"U+1E4E", "U+1E4F">>, <<"U+1E50", "U+1E51">>,
       <<"U+1E52", "U+1E53">>, <<"U+1E54", "U+1E55">>,
       <<"U+1E56", "U+1E57">>, <<"U+1E58", "U+1E59">>,
       <<"U+1E5A", "U+1E5B">>, <<"U+1E5C", "U+1E5D">>,
       <<"U+1E5E", "U+1E5F">>, <<"U+1E60", "U+1E61">>,
       <<"U+1E62", "U+1E63">>, <<"U+1E64", "U+1E65">>,
       <<"U+1E66", "U+1E67">>, <<"U+1E68", "U+1E69">>,
       <<"U+1E6A", "U+1E6B">>, <<"U+1E6C", "U+1E6D">>,
       <<"U+1E6E", "U+1E6F">>, <<"U+1E70", "U+1E71">>,
       <<"U+1E72", "U+1E73">>, <<"U+1E74", "U+1E75">>,
       <<"U+1E76", "U+1E77">>, <<"U+1E78", "U+1E79">>,
       <<"U+1E7A", "U+1E7B">>, <<"U+1E7C", "U+1E7D">>,
       <<"U+1E7E", "U+1E7F">>, <<"Ẁ", "ẁ">>, <<"Ẃ", "ẃ">>, <<"Ẅ", "ẅ">>,
       <<"Ẇ", "ẇ">>, <<"Ẉ", "ẉ">>, <<"Ẋ", "ẋ">>, <<"Ẍ", "ẍ">>, <<"Ẏ", "ẏ">>,
       <<"Ẑ", "ẑ">>, <<"Ẓ", "ẓ">>, <<"Ẕ", "ẕ">>, <<"ẞ", "ß">>, <<"Ạ", "ạ">>,
       <<"Ả", "ả">>, <<"Ấ", "ấ">>, <<"Ầ", "ầ">>, <<"Ẩ", "ẩ">>, <<"Ẫ", "ẫ">>,
       <<"Ậ", "ậ">>, <<"Ắ", "ắ">>, <<"Ằ", "ằ">>, <<"Ẳ", "ẳ">>, <<"Ẵ", "ẵ">>,
       <<"Ặ", "ặ">>, <<"Ẹ", "ẹ">>, <<"Ẻ", "ẻ">>, <<"Ẽ", "ẽ">>, <<"Ế", "ế">>,
       <<"Ề", "ề">>, <<"Ể", "ể">>, <<"Ễ", "ễ">>, <<"Ệ", "ệ">>, <<"Ỉ", "ỉ">>,
       <<"Ị", "ị">>, <<"Ọ", "ọ">>, <<"Ỏ", "ỏ">>, <<"Ố", "ố">>, <<"Ồ", "ồ">>,
       <<"Ổ", "ổ">>, <<"Ỗ", "ỗ">>, <<"Ộ", "ộ">>, <<"Ớ", "ớ">>, <<"Ờ", "ờ">>,
       <<"Ở", "ở">>, <<"Ỡ", "ỡ">>, <<"Ợ", "ợ">>, <<"Ụ", "ụ">>, <<"Ủ", "ủ">>,
       <<"Ứ", "ứ">>, <<"Ừ", "ừ">>, <<"Ử", "ử">>, <<"Ữ", "ữ">>, <<"Ự", "ự">>,
       <<"Ỳ", "ỳ">>, <<"Ỵ", "ỵ">>, <<"Ỷ", "ỷ">>, <<"Ỹ", "ỹ">>, <<"Ỻ", "ỻ">>,
       <<"Ỽ", "ỽ">>, <<"Ỿ", "ỿ">>, <<"U+1F08", "U+1F00">>,
       <<"U+1F09", "U+1F01">>, <<"U+1F0A", "U+1F02">>,
       <<"U+1F0B", "U+1F03">>, <<"U+1F0C", "U+1F04">>,
       <<"U+1F0D", "U+1F05">>, <<"U+1F0E", "U+1F06">>,
       <<"U+1F0F", "U+1F07">>, <<"U+1F18", "U+1F10">>,
       <<"U+1F19", "U+1F11">>, <<"U+1F1A", "U+1F12">>,
       <<"U+1F1B", "U+1F13">>, <<"U+1F1C", "U+1F14">>,
       <<"U+1F1D", "U+1F15">>, <<"U+1F28", "U+1F20">>,
       <<"U+1F29", "U+1F21">>, <<"U+1F2A", "U+1F22">>,
       <<"U+1F2B", "U+1F23">>, <<"U+1F2C", "U+1F24">>,
       <<"U+1F2D", "U+1F25">>, <<"U+1F2E", "U+1F26">>,
       <<"U+1F2F", "U+1F27">>, <<"U+1F38", "U+1F30">>,
       <<"U+1F39", "U+1F31">>, <<"U+1F3A", "U+1F32">>,
       <<"U+1F3B", "U+1F33">>, <<"U+1F3C", "U+1F34">>,
       <<"U+1F3D", "U+1F35">>, <<"U+1F3E", "U+1F36">>,
       <<"U+1F3F", "U+1F37">>, <<"U+1F48", "U+1F40">>,
       <<"U+1F49", "U+1F41">>, <<"U+1F4A", "U+1F42">>,
       <<"U+1F4B", "U+1F43">>, <<"U+1F4C", "U+1F44">>,
       <<"U+1F4D", "U+1F45">>, <<"U+1F59", "U+1F51">>,
       <<"U+1F5B", "U+1F53">>, <<"U+1F5D", "U+1F55">>,
       <<"U+1F5F", "U+1F57">>, <<"U+1F68", "U+1F60">>,
       <<"U+1F69", "U+1F61">>, <<"U+1F6A", "U+1F62">>,
       <<"U+1F6B", "U+1F63">>, <<"U+1F6C", "U+1F64">>,
       <<"U+1F6D", "U+1F65">>, <<"U+1F6E", "U+1F66">>,
       <<"U+1F6F", "U+1F67">>, <<"ᾈ", "ᾀ">>, <<"ᾉ", "ᾁ">>, <<"ᾊ", "ᾂ">>,
       <<"ᾋ", "ᾃ">>, <<"ᾌ", "ᾄ">>, <<"ᾍ", "ᾅ">>, <<"ᾎ", "ᾆ">>, <<"ᾏ", "ᾇ">>,
       <<"ᾘ", "ᾐ">>, <<"ᾙ", "ᾑ">>, <<"ᾚ", "ᾒ">>, <<"ᾛ", "ᾓ">>, <<"ᾜ", "ᾔ">>,
       <<"ᾝ", "ᾕ">>, <<"ᾞ", "ᾖ">>, <<"ᾟ", "ᾗ">>, <<"ᾨ", "ᾠ">>, <<"ᾩ", "ᾡ">>,
       <<"ᾪ", "ᾢ">>, <<"ᾫ", "ᾣ">>, <<"ᾬ", "ᾤ">>, <<"ᾭ", "ᾥ">>, <<"ᾮ", "ᾦ">>,
       <<"ᾯ", "ᾧ">>, <<"Ᾰ", "ᾰ">>, <<"Ᾱ", "ᾱ">>, <<"Ὰ", "U+1F70">>,
       <<"Ά", "U+1F71">>, <<"ᾼ", "ᾳ">>, <<"Ὲ", "U+1F72">>, <<"Έ", "U+1F73">>,
       <<"Ὴ", "U+1F74">>, <<"Ή", "U+1F75">>, <<"ῌ", "ῃ">>, <<"Ῐ", "ῐ">>,
       <<"Ῑ", "ῑ">>, <<"Ὶ", "U+1F76">>, <<"Ί", "U+1F77">>, <<"Ῠ", "ῠ">>,
       <<"Ῡ", "ῡ">>, <<"Ὺ", "U+1F7A">>, <<"Ύ", "U+1F7B">>, <<"Ῥ", "ῥ">>,
       <<"Ὸ", "U+1F78">>, <<"Ό", "U+1F79">>, <<"Ὼ", "U+1F7C">>,
       <<"Ώ", "U+1F7D">>, <<"ῼ", "ῳ">>, <<"U+2126", "ω">>, <<"U+212A", "k">>,
       <<"U+212B", "å">>, <<"U+2132", "U+214E">>, <<"U+2160", "U+2170">>,
       <<"U+2161", "U+2171">>, <<"U+2162", "U+2172">>,
       <<"U+2163", "U+2173">>, <<"U+2164", "U+2174">>,
       <<"U+2165", "U+2175">>, <<"U+2166", "U+2176">>,
       <<"U+2167", "U+2177">>, <<"U+2168", "U+2178">>,
       <<"U+2169", "U+2179">>, <<"U+216A", "U+217A">>,
       <<"U+216B", "U+217B">>, <<"U+216C", "U+217C">>,
       <<"U+216D", "U+217D">>, <<"U+216E", "U+217E">>,
       <<"U+216F", "U+217F">>, <<"Ↄ", "ↄ">>, <<"Ⓐ", "ⓐ">>, <<"Ⓑ", "ⓑ">>,
       <<"Ⓒ", "ⓒ">>, <<"Ⓓ", "ⓓ">>, <<"Ⓔ", "ⓔ">>, <<"Ⓕ", "ⓕ">>, <<"Ⓖ", "ⓖ">>,
       <<"Ⓗ", "ⓗ">>, <<"Ⓘ", "ⓘ">>, <<"Ⓙ", "ⓙ">>, <<"Ⓚ", "ⓚ">>, <<"Ⓛ", "ⓛ">>,
       <<"Ⓜ", "ⓜ">>, <<"Ⓝ", "ⓝ">>, <<"Ⓞ", "ⓞ">>, <<"Ⓟ", "ⓟ">>, <<"Ⓠ", "ⓠ">>,
       <<"Ⓡ", "ⓡ">>, <<"Ⓢ", "ⓢ">>, <<"Ⓣ", "ⓣ">>, <<"Ⓤ", "ⓤ">>, <<"Ⓥ", "ⓥ">>,
       <<"Ⓦ", "ⓦ">>, <<"Ⓧ", "ⓧ">>, <<"Ⓨ", "ⓨ">>, <<"Ⓩ", "ⓩ">>,
       <<"U+2C00", "U+2C30">>, <<"U+2C01", "U+2C31">>,
       <<"U+2C02", "U+2C32">>, <<"U+2C03", "U+2C33">>,
       <<"U+2C04", "U+2C34">>, <<"U+2C05", "U+2C35">>,
       <<"U+2C06", "U+2C36">>, <<"U+2C07", "U+2C37">>,
       <<"U+2C08", "U+2C38">>, <<"U+2C09", "U+2C39">>,
       <<"U+2C0A", "U+2C3A">>, <<"U+2C0B", "U+2C3B">>,
       <<"U+2C0C", "U+2C3C">>, <<"U+2C0D", "U+2C3D">>,
       <<"U+2C0E", "U+2C3E">>, <<"U+2C0F", "U+2C3F">>,
       <<"U+2C10", "U+2C40">>, <<"U+2C11", "U+2C41">>,
       <<"U+2C12", "U+2C42">>, <<"U+2C13", "U+2C43">>,
       <<"U+2C14", "U+2C44">>, <<"U+2C15", "U+2C45">>,
       <<"U+2C16", "U+2C46">>, <<"U+2C17", "U+2C47">>,
       <<"U+2C18", "U+2C48">>, <<"U+2C19", "U+2C49">>,
       <<"U+2C1A", "U+2C4A">>, <<"U+2C1B", "U+2C4B">>,
       <<"U+2C1C", "U+2C4C">>, <<"U+2C1D", "U+2C4D">>,
       <<"U+2C1E", "U+2C4E">>, <<"U+2C1F", "U+2C4F">>,
       <<"U+2C20", "U+2C50">>, <<"U+2C21", "U+2C51">>,
       <<"U+2C22", "U+2C52">>, <<"U+2C23", "U+2C53">>,
       <<"U+2C24", "U+2C54">>, <<"U+2C25", "U+2C55">>,
       <<"U+2C26", "U+2C56">>, <<"U+2C27", "U+2C57">>,
       <<"U+2C28", "U+2C58">>, <<"U+2C29", "U+2C59">>,
       <<"U+2C2A", "U+2C5A">>, <<"U+2C2B", "U+2C5B">>,
       <<"U+2C2C", "U+2C5C">>, <<"U+2C2D", "U+2C5D">>,
       <<"U+2C2E", "U+2C5E">>, <<"U+2C2F", "U+2C5F">>,
       <<"U+2C60", "U+2C61">>, <<"U+2C62", "U+026B">>,
       <<"U+2C63", "U+1D7D">>, <<"U+2C64", "U+027D">>,
       <<"U+2C67", "U+2C68">>, <<"U+2C69", "U+2C6A">>,
       <<"U+2C6B", "U+2C6C">>, <<"U+2C6D", "U+0251">>,
       <<"U+2C6E", "U+0271">>, <<"U+2C6F", "U+0250">>,
       <<"U+2C70", "U+0252">>, <<"U+2C72", "U+2C73">>,
       <<"U+2C75", "U+2C76">>, <<"U+2C7E", "U+023F">>,
       <<"U+2C7F", "U+0240">>, <<"Ⲁ", "ⲁ">>, <<"Ⲃ", "ⲃ">>, <<"Ⲅ", "ⲅ">>,
       <<"Ⲇ", "ⲇ">>, <<"Ⲉ", "ⲉ">>, <<"Ⲋ", "ⲋ">>, <<"Ⲍ", "ⲍ">>, <<"Ⲏ", "ⲏ">>,
       <<"Ⲑ", "ⲑ">>, <<"Ⲓ", "ⲓ">>, <<"Ⲕ", "ⲕ">>, <<"Ⲗ", "ⲗ">>, <<"Ⲙ", "ⲙ">>,
       <<"Ⲛ", "ⲛ">>, <<"Ⲝ", "ⲝ">>, <<"Ⲟ", "ⲟ">>, <<"Ⲡ", "ⲡ">>, <<"Ⲣ", "ⲣ">>,
       <<"Ⲥ", "ⲥ">>, <<"Ⲧ", "ⲧ">>, <<"Ⲩ", "ⲩ">>, <<"Ⲫ", "ⲫ">>, <<"Ⲭ", "ⲭ">>,
       <<"Ⲯ", "ⲯ">>, <<"Ⲱ", "ⲱ">>, <<"Ⲳ", "ⲳ">>, <<"Ⲵ", "ⲵ">>, <<"Ⲷ", "ⲷ">>,
       <<"Ⲹ", "ⲹ">>, <<"Ⲻ", "ⲻ">>, <<"Ⲽ", "ⲽ">>, <<"Ⲿ", "ⲿ">>, <<"Ⳁ", "ⳁ">>,
       <<"Ⳃ", "ⳃ">>, <<"Ⳅ", "ⳅ">>, <<"Ⳇ", "ⳇ">>, <<"Ⳉ", "ⳉ">>, <<"Ⳋ", "ⳋ">>,
       <<"Ⳍ", "ⳍ">>, <<"Ⳏ", "ⳏ">>, <<"Ⳑ", "ⳑ">>, <<"Ⳓ", "ⳓ">>, <<"Ⳕ", "ⳕ">>,
       <<"Ⳗ", "ⳗ">>, <<"Ⳙ", "ⳙ">>, <<"Ⳛ", "ⳛ">>, <<"Ⳝ", "ⳝ">>, <<"Ⳟ", "ⳟ">>,
       <<"Ⳡ", "ⳡ">>, <<"Ⳣ", "ⳣ">>, <<"Ⳬ", "ⳬ">>, <<"Ⳮ", "ⳮ">>, <<"Ⳳ", "ⳳ">>,
       <<"U+A640", "U+A641">>, <<"U+A642", "U+A643">>,
       <<"U+A644", "U+A645">>, <<"U+A646", "U+A647">>,
       <<"U+A648", "U+A649">>, <<"U+A64A", "U+A64B">>,
       <<"U+A64C", "U+A64D">>, <<"U+A64E", "U+A64F">>,
       <<"U+A650", "U+A651">>, <<"U+A652", "U+A653">>,
       <<"U+A654", "U+A655">>, <<"U+A656", "U+A657">>,
       <<"U+A658", "U+A659">>, <<"U+A65A", "U+A65B">>,
       <<"U+A65C", "U+A65D">>, <<"U+A65E", "U+A65F">>,
       <<"U+A660", "U+A661">>, <<"U+A662", "U+A663">>,
       <<"U+A664", "U+A665">>, <<"U+A666", "U+A667">>,
       <<"U+A668", "U+A669">>, <<"U+A66A", "U+A66B">>,
       <<"U+A66C", "U+A66D">>, <<"Ꚁ", "ꚁ">>, <<"Ꚃ", "ꚃ">>, <<"Ꚅ", "ꚅ">>,
       <<"Ꚇ", "ꚇ">>, <<"Ꚉ", "ꚉ">>, <<"Ꚋ", "ꚋ">>, <<"Ꚍ", "ꚍ">>, <<"Ꚏ", "ꚏ">>,
       <<"Ꚑ", "ꚑ">>, <<"Ꚓ", "ꚓ">>, <<"Ꚕ", "ꚕ">>, <<"Ꚗ", "ꚗ">>, <<"Ꚙ", "ꚙ">>,
       <<"Ꚛ", "ꚛ">>, <<"U+A722", "U+A723">>, <<"U+A724", "U+A725">>,
       <<"U+A726", "U+A727">>, <<"U+A728", "U+A729">>,
       <<"U+A72A", "U+A72B">>, <<"U+A72C", "U+A72D">>,
       <<"U+A72E", "U+A72F">>, <<"U+A732", "U+A733">>,
       <<"U+A734", "U+A735">>, <<"U+A736", "U+A737">>,
       <<"U+A738", "U+A739">>, <<"U+A73A", "U+A73B">>,
       <<"U+A73C", "U+A73D">>, <<"U+A73E", "U+A73F">>,
       <<"U+A740", "U+A741">>, <<"U+A742", "U+A743">>,
       <<"U+A744", "U+A745">>, <<"U+A746", "U+A747">>,
       <<"U+A748", "U+A749">>, <<"U+A74A", "U+A74B">>,
       <<"U+A74C", "U+A74D">>, <<"U+A74E", "U+A74F">>,
       <<"U+A750", "U+A751">>, <<"U+A752", "U+A753">>,
       <<"U+A754", "U+A755">>, <<"U+A756", "U+A757">>,
       <<"U+A758", "U+A759">>, <<"U+A75A", "U+A75B">>,
       <<"U+A75C", "U+A75D">>, <<"U+A75E", "U+A75F">>,
       <<"U+A760", "U+A761">>, <<"U+A762", "U+A763">>,
       <<"U+A764", "U+A765">>, <<"U+A766", "U+A767">>,
       <<"U+A768", "U+A769">>, <<"U+A76A", "U+A76B">>,
       <<"U+A76C", "U+A76D">>, <<"U+A76E", "U+A76F">>,
       <<"U+A779", "U+A77A">>, <<"U+A77B", "U+A77C">>,
       <<"U+A77D", "U+1D79">>, <<"U+A77E", "U+A77F">>, <<"Ꞁ", "ꞁ">>,
       <<"Ꞃ", "ꞃ">>, <<"Ꞅ", "ꞅ">>, <<"Ꞇ", "ꞇ">>, <<"Ꞌ", "ꞌ">>,
       <<"Ɥ", "U+0265">>, <<"Ꞑ", "ꞑ">>, <<"Ꞓ", "ꞓ">>, <<"Ꞗ", "ꞗ">>,
       <<"Ꞙ", "ꞙ">>, <<"Ꞛ", "ꞛ">>, <<"Ꞝ", "ꞝ">>, <<"Ꞟ", "ꞟ">>, <<"Ꞡ", "ꞡ">>,
       <<"Ꞣ", "ꞣ">>, <<"Ꞥ", "ꞥ">>, <<"Ꞧ", "ꞧ">>, <<"Ꞩ", "ꞩ">>,
       <<"Ɦ", "U+0266">>, <<"Ɜ", "U+025C">>, <<"Ɡ", "U+0261">>,
       <<"Ɬ", "U+026C">>, <<"Ɪ", "U+026A">>, <<"Ʞ", "ʞ">>, <<"Ʇ", "ʇ">>,
       <<"Ʝ", "ʝ">>, <<"Ꭓ", "U+AB53">>, <<"Ꞵ", "ꞵ">>, <<"Ꞷ", "ꞷ">>,
       <<"Ꞹ", "ꞹ">>, <<"Ꞻ", "ꞻ">>, <<"Ꞽ", "ꞽ">>, <<"Ꞿ", "ꞿ">>, <<"Ꟁ", "ꟁ">>,
       <<"Ꟃ", "ꟃ">>, <<"Ꞔ", "ꞔ">>, <<"Ʂ", "ʂ">>, <<"Ᶎ", "ᶎ">>, <<"Ꟈ", "ꟈ">>,
       <<"Ꟊ", "ꟊ">>, <<"Ꟑ", "ꟑ">>, <<"Ꟗ", "ꟗ">>, <<"Ꟙ", "ꟙ">>, <<"Ꟶ", "ꟶ">>,
       <<"U+FF21", "U+FF41">>, <<"U+FF22", "U+FF42">>,
       <<"U+FF23", "U+FF43">>, <<"U+FF24", "U+FF44">>,
       <<"U+FF25", "U+FF45">>, <<"U+FF26", "U+FF46">>,
       <<"U+FF27", "U+FF47">>, <<"U+FF28", "U+FF48">>,
       <<"U+FF29", "U+FF49">>, <<"U+FF2A", "U+FF4A">>,
       <<"U+FF2B", "U+FF4B">>, <<"U+FF2C", "U+FF4C">>,
       <<"U+FF2D", "U+FF4D">>, <<"U+FF2E", "U+FF4E">>,
       <<"U+FF2F", "U+FF4F">>, <<"U+FF30", "U+FF50">>,
       <<"U+FF31", "U+FF51">>, <<"U+FF32", "U+FF52">>,
       <<"U+FF33", "U+FF53">>, <<"U+FF34", "U+FF54">>,
       <<"U+FF35", "U+FF55">>, <<"U+FF36", "U+FF56">>,
       <<"U+FF37", "U+FF57">>, <<"U+FF38", "U+FF58">>,
       <<"U+FF39", "U+FF59">>, <<"U+FF3A", "U+FF5A">>,
       <<"U+10400", "U+10428">>, <<"U+10401", "U+10429">>,
       <<"U+10402", "U+1042A">>, <<"U+10403", "U+1042B">>,
       <<"U+10404", "U+1042C">>, <<"U+10405", "U+1042D">>,
       <<"U+10406", "U+1042E">>, <<"U+10407", "U+1042F">>,
       <<"U+10408", "U+10430">>, <<"U+10409", "U+10431">>,
       <<"U+1040A", "U+10432">>, <<"U+1040B", "U+10433">>,
       <<"U+1040C", "U+10434">>, <<"U+1040D", "U+10435">>,
       <<"U+1040E", "U+10436">>, <<"U+1040F", "U+10437">>,
       <<"U+10410", "U+10438">>, <<"U+10411", "U+10439">>,
       <<"U+10412", "U+1043A">>, <<"U+10413", "U+1043B">>,
       <<"U+10414", "U+1043C">>, <<"U+10415", "U+1043D">>,
       <<"U+10416", "U+1043E">>, <<"U+10417", "U+1043F">>,
       <<"U+10418", "U+10440">>, <<"U+10419", "U+10441">>,
       <<"U+1041A", "U+10442">>, <<"U+1041B", "U+10443">>,
       <<"U+1041C", "U+10444">>, <<"U+1041D", "U+10445">>,
       <<"U+1041E", "U+10446">>, <<"U+1041F", "U+10447">>,
       <<"U+10420", "U+10448">>, <<"U+10421", "U+10449">>,
       <<"U+10422", "U+1044A">>, <<"U+10423", "U+1044B">>,
       <<"U+10424", "U+1044C">>, <<"U+10425", "U+1044D">>,
       <<"U+10426", "U+1044E">>, <<"U+10427", "U+1044F">>,
       <<"U+104B0", "U+104D8">>, <<"U+104B1", "U+104D9">>,
       <<"U+104B2", "U+104DA">>, <<"U+104B3", "U+104DB">>,
       <<"U+104B4", "U+104DC">>, <<"U+104B5", "U+104DD">>,
       <<"U+104B6", "U+104DE">>, <<"U+104B7", "U+104DF">>,
       <<"U+104B8", "U+104E0">>, <<"U+104B9", "U+104E1">>,
       <<"U+104BA", "U+104E2">>, <<"U+104BB", "U+104E3">>,
       <<"U+104BC", "U+104E4">>, <<"U+104BD", "U+104E5">>,
       <<"U+104BE", "U+104E6">>, <<"U+104BF", "U+104E7">>,
       <<"U+104C0", "U+104E8">>, <<"U+104C1", "U+104E9">>,
       <<"U+104C2", "U+104EA">>, <<"U+104C3", "U+104EB">>,
       <<"U+104C4", "U+104EC">>, <<"U+104C5", "U+104ED">>,
       <<"U+104C6", "U+104EE">>, <<"U+104C7", "U+104EF">>,
       <<"U+104C8", "U+104F0">>, <<"U+104C9", "U+104F1">>,
       <<"U+104CA", "U+104F2">>, <<"U+104CB", "U+104F3">>,
       <<"U+104CC", "U+104F4">>, <<"U+104CD", "U+104F5">>,
       <<"U+104CE", "U+104F6">>, <<"U+104CF", "U+104F7">>,
       <<"U+104D0", "U+104F8">>, <<"U+104D1", "U+104F9">>,
       <<"U+104D2", "U+104FA">>, <<"U+104D3", "U+104FB">>,
       <<"U+10570", "U+10597">>, <<"U+10571", "U+10598">>,
       <<"U+10572", "U+10599">>, <<"U+10573", "U+1059A">>,
       <<"U+10574", "U+1059B">>, <<"U+10575", "U+1059C">>,
       <<"U+10576", "U+1059D">>, <<"U+10577", "U+1059E">>,
       <<"U+10578", "U+1059F">>, <<"U+10579", "U+105A0">>,
       <<"U+1057A", "U+105A1">>, <<"U+1057C", "U+105A3">>,
       <<"U+1057D", "U+105A4">>, <<"U+1057E", "U+105A5">>,
       <<"U+1057F", "U+105A6">>, <<"U+10580", "U+105A7">>,
       <<"U+10581", "U+105A8">>, <<"U+10582", "U+105A9">>,
       <<"U+10583", "U+105AA">>, <<"U+10584", "U+105AB">>,
       <<"U+10585", "U+105AC">>, <<"U+10586", "U+105AD">>,
       <<"U+10587", "U+105AE">>, <<"U+10588", "U+105AF">>,
       <<"U+10589", "U+105B0">>, <<"U+1058A", "U+105B1">>,
       <<"U+1058C", "U+105B3">>, <<"U+1058D", "U+105B4">>,
       <<"U+1058E", "U+105B5">>, <<"U+1058F", "U+105B6">>,
       <<"U+10590", "U+105B7">>, <<"U+10591", "U+105B8">>,
       <<"U+10592", "U+105B9">>, <<"U+10594", "U+105BB">>,
       <<"U+10595", "U+105BC">>, <<"U+10C80", "U+10CC0">>,
       <<"U+10C81", "U+10CC1">>, <<"U+10C82", "U+10CC2">>,
       <<"U+10C83", "U+10CC3">>, <<"U+10C84", "U+10CC4">>,
       <<"U+10C85", "U+10CC5">>, <<"U+10C86", "U+10CC6">>,
       <<"U+10C87", "U+10CC7">>, <<"U+10C88", "U+10CC8">>,
       <<"U+10C89", "U+10CC9">>, <<"U+10C8A", "U+10CCA">>,
       <<"U+10C8B", "U+10CCB">>, <<"U+10C8C", "U+10CCC">>,
       <<"U+10C8D", "U+10CCD">>, <<"U+10C8E", "U+10CCE">>,
       <<"U+10C8F", "U+10CCF">>, <<"U+10C90", "U+10CD0">>,
       <<"U+10C91", "U+10CD1">>, <<"U+10C92", "U+10CD2">>,
       <<"U+10C93", "U+10CD3">>, <<"U+10C94", "U+10CD4">>,
       <<"U+10C95", "U+10CD5">>, <<"U+10C96", "U+10CD6">>,
       <<"U+10C97", "U+10CD7">>, <<"U+10C98", "U+10CD8">>,
       <<"U+10C99", "U+10CD9">>, <<"U+10C9A", "U+10CDA">>,
       <<"U+10C9B", "U+10CDB">>, <<"U+10C9C", "U+10CDC">>,
       <<"U+10C9D", "U+10CDD">>, <<"U+10C9E", "U+10CDE">>,
       <<"U+10C9F", "U+10CDF">>, <<"U+10CA0", "U+10CE0">>,
       <<"U+10CA1", "U+10CE1">>, <<"U+10CA2", "U+10CE2">>,
       <<"U+10CA3", "U+10CE3">>, <<"U+10CA4", "U+10CE4">>,
       <<"U+10CA5", "U+10CE5">>, <<"U+10CA6", "U+10CE6">>,
       <<"U+10CA7", "U+10CE7">>, <<"U+10CA8", "U+10CE8">>,
       <<"U+10CA9", "U+10CE9">>, <<"U+10CAA", "U+10CEA">>,
       <<"U+10CAB", "U+10CEB">>, <<"U+10CAC", "U+10CEC">>,
       <<"U+10CAD", "U+10CED">>, <<"U+10CAE", "U+10CEE">>,
       <<"U+10CAF", "U+10CEF">>, <<"U+10CB0", "U+10CF0">>,
       <<"U+10CB1", "U+10CF1">>, <<"U+10CB2", "U+10CF2">>,
       <<"U+118A0", "U+118C0">>, <<"U+118A1", "U+118C1">>,
       <<"U+118A2", "U+118C2">>, <<"U+118A3", "U+118C3">>,
       <<"U+118A4", "U+118C4">>, <<"U+118A5", "U+118C5">>,
       <<"U+118A6", "U+118C6">>, <<"U+118A7", "U+118C7">>,
       <<"U+118A8", "U+118C8">>, <<"U+118A9", "U+118C9">>,
       <<"U+118AA", "U+118CA">>, <<"U+118AB", "U+118CB">>,
       <<"U+118AC", "U+118CC">>, <<"U+118AD", "U+118CD">>,
       <<"U+118AE", "U+118CE">>, <<"U+118AF", "U+118CF">>,
       <<"U+118B0", "U+118D0">>, <<"U+118B1", "U+118D1">>,
       <<"U+118B2", "U+118D2">>, <<"U+118B3", "U+118D3">>,
       <<"U+118B4", "U+118D4">>, <<"U+118B5", "U+118D5">>,
       <<"U+118B6", "U+118D6">>, <<"U+118B7", "U+118D7">>,
       <<"U+118B8", "U+118D8">>, <<"U+118B9", "U+118D9">>,
       <<"U+118BA", "U+118DA">>, <<"U+118BB", "U+118DB">>,
       <<"U+118BC", "U+118DC">>, <<"U+118BD", "U+118DD">>,
       <<"U+118BE", "U+118DE">>, <<"U+118BF", "U+118DF">>,
       <<"U+16E40", "U+16E60">>, <<"U+16E41", "U+16E61">>,
       <<"U+16E42", "U+16E62">>, <<"U+16E43", "U+16E63">>,
       <<"U+16E44", "U+16E64">>, <<"U+16E45", "U+16E65">>,
       <<"U+16E46", "U+16E66">>, <<"U+16E47", "U+16E67">>,
       <<"U+16E48", "U+16E68">>, <<"U+16E49", "U+16E69">>,
       <<"U+16E4A", "U+16E6A">>, <<"U+16E4B", "U+16E6B">>,
       <<"U+16E4C", "U+16E6C">>, <<"U+16E4D", "U+16E6D">>,
       <<"U+16E4E", "U+16E6E">>, <<"U+16E4F", "U+16E6F">>,
       <<"U+16E50", "U+16E70">>, <<"U+16E51", "U+16E71">>,
       <<"U+16E52", "U+16E72">>, <<"U+16E53", "U+16E73">>,
       <<"U+16E54", "U+16E74">>, <<"U+16E55", "U+16E75">>,
       <<"U+16E56", "U+16E76">>, <<"U+16E57", "U+16E77">>,
       <<"U+16E58", "U+16E78">>, <<"U+16E59", "U+16E79">>,
       <<"U+16E5A", "U+16E7A">>, <<"U+16E5B", "U+16E7B">>,
       <<"U+16E5C", "U+16E7C">>, <<"U+16E5D", "U+16E7D">>,
       <<"U+16E5E", "U+16E7E">>, <<"U+16E5F", "U+16E7F">>,
       <<"U+1E900", "U+1E922">>, <<"U+1E901", "U+1E923">>,
       <<"U+1E902", "U+1E924">>, <<"U+1E903", "U+1E925">>,
       <<"U+1E904", "U+1E926">>, <<"U+1E905", "U+1E927">>,
       <<"U+1E906", "U+1E928">>, <<"U+1E907", "U+1E929">>,
       <<"U+1E908", "U+1E92A">>, <<"U+1E909", "U+1E92B">>,
       <<"U+1E90A", "U+1E92C">>, <<"U+1E90B", "U+1E92D">>,
       <<"U+1E90C", "U+1E92E">>, <<"U+1E90D", "U+1E92F">>,
       <<"U+1E90E", "U+1E930">>, <<"U+1E90F", "U+1E931">>,
       <<"U+1E910", "U+1E932">>, <<"U+1E911", "U+1E933">>,
       <<"U+1E912", "U+1E934">>, <<"U+1E913", "U+1E935">>,
       <<"U+1E914", "U+1E936">>, <<"U+1E915", "U+1E937">>,
       <<"U+1E916", "U+1E938">>, <<"U+1E917", "U+1E939">>,
       <<"U+1E918", "U+1E93A">>, <<"U+1E919", "U+1E93B">>,
       <<"U+1E91A", "U+1E93C">>, <<"U+1E91B", "U+1E93D">>,
       <<"U+1E91C", "U+1E93E">>, <<"U+1E91D", "U+1E93F">>,
       <<"U+1E91E", "U+1E940">>, <<"U+1E91F", "U+1E941">>,
       <<"U+1E920", "U+1E942">>, <<"U+1E921", "U+1E943">>
    >>

\* The characters whose lower case is longer than one character.
LowerSpecial ==
    <<
       <<"U+0130", <<"i", "U+0307">>>>
    >>

\* The characters with a one-character upper case, and that upper case.
UpperPairs ==
    <<
       <<"a", "A">>, <<"b", "B">>, <<"c", "C">>, <<"d", "D">>, <<"e", "E">>,
       <<"f", "F">>, <<"g", "G">>, <<"h", "H">>, <<"i", "I">>, <<"j", "J">>,
       <<"k", "K">>, <<"l", "L">>, <<"m", "M">>, <<"n", "N">>, <<"o", "O">>,
       <<"p", "P">>, <<"q", "Q">>, <<"r", "R">>, <<"s", "S">>, <<"t", "T">>,
       <<"u", "U">>, <<"v", "V">>, <<"w", "W">>, <<"x", "X">>, <<"y", "Y">>,
       <<"z", "Z">>, <<"µ", "Μ">>, <<"à", "À">>, <<"á", "Á">>, <<"â", "Â">>,
       <<"ã", "Ã">>, <<"ä", "Ä">>, <<"å", "Å">>, <<"æ", "Æ">>, <<"ç", "Ç">>,
       <<"è", "È">>, <<"é", "É">>, <<"ê", "Ê">>, <<"ë", "Ë">>, <<"ì", "Ì">>,
       <<"í", "Í">>, <<"î", "Î">>, <<"ï", "Ï">>, <<"ð", "Ð">>, <<"ñ", "Ñ">>,
       <<"ò", "Ò">>, <<"ó", "Ó">>, <<"ô", "Ô">>, <<"õ", "Õ">>, <<"ö", "Ö">>,
       <<"ø", "Ø">>, <<"ù", "Ù">>, <<"ú", "Ú">>, <<"û", "Û">>, <<"ü", "Ü">>,
       <<"ý", "Ý">>, <<"þ", "Þ">>, <<"ÿ", "U+0178">>, <<"U+0101", "U+0100">>,
       <<"U+0103", "U+0102">>, <<"U+0105", "U+0104">>,
       <<"U+0107", "U+0106">>, <<"U+0109", "U+0108">>,
       <<"U+010B", "U+010A">>, <<"U+010D", "U+010C">>,
       <<"U+010F", "U+010E">>, <<"U+0111", "U+0110">>,
       <<"U+0113", "U+0112">>, <<"U+0115", "U+0114">>,
       <<"U+0117", "U+0116">>, <<"U+0119", "U+0118">>,
       <<"U+011B", "U+011A">>, <<"U+011D", "U+011C">>,
       <<"U+011F", "U+011E">>, <<"U+0121", "U+0120">>,
       <<"U+0123", "U+0122">>, <<"U+0125", "U+0124">>,
       <<"U+0127", "U+0126">>, <<"U+0129", "U+0128">>,
       <<"U+012B", "U+012A">>, <<"U+012D", "U+012C">>,
       <<"U+012F", "U+012E">>, <<"U+0131", "I">>, <<"U+0133", "U+0132">>,
       <<"U+0135", "U+0134">>, <<"U+0137", "U+0136">>,
       <<"U+013A", "U+0139">>, <<"U+013C", "U+013B">>,
       <<"U+013E", "U+013D">>, <<"U+0140", "U+013F">>,
       <<"U+0142", "U+0141">>, <<"U+0144", "U+0143">>,
       <<"U+0146", "U+0145">>, <<"U+0148", "U+0147">>,
       <<"U+014B", "U+014A">>, <<"U+014D", "U+014C">>,
       <<"U+014F", "U+014E">>, <<"U+0151", "U+0150">>,
       <<"U+0153", "U+0152">>, <<"U+0155", "U+0154">>,
       <<"U+0157", "U+0156">>, <<"U+0159", "U+0158">>,
       <<"U+015B", "U+015A">>, <<"U+015D", "U+015C">>,
       <<"U+015F", "U+015E">>, <<"U+0161", "U+0160">>,
       <<"U+0163", "U+0162">>, <<"U+0165", "U+0164">>,
       <<"U+0167", "U+0166">>, <<"U+0169", "U+0168">>,
       <<"U+016B", "U+016A">>, <<"U+016D", "U+016C">>,
       <<"U+016F", "U+016E">>, <<"U+0171", "U+0170">>,
       <<"U+0173", "U+0172">>, <<"U+0175", "U+0174">>,
       <<"U+0177", "U+0176">>, <<"U+017A", "U+0179">>,
       <<"U+017C", "U+017B">>, <<"U+017E", "U+017D">>, <<"U+017F", "S">>,
       <<"ƀ", "U+0243">>, <<"ƃ", "Ƃ">>, <<"ƅ", "Ƅ">>, <<"ƈ", "Ƈ">>,
       <<"ƌ", "Ƌ">>, <<"ƒ", "Ƒ">>, <<"ƕ", "Ƕ">>, <<"ƙ", "Ƙ">>,
       <<"ƚ", "U+023D">>, <<"ƞ", "U+0220">>, <<"ơ", "Ơ">>, <<"ƣ", "Ƣ">>,
       <<"ƥ", "Ƥ">>, <<"ƨ", "Ƨ">>, <<"ƭ", "Ƭ">>, <<"ư", "Ư">>, <<"ƴ", "Ƴ">>,
       <<"ƶ", "Ƶ">>, <<"ƹ", "Ƹ">>, <<"ƽ", "Ƽ">>, <<"ƿ", "Ƿ">>, <<"ǅ", "Ǆ">>,
       <<"ǆ", "Ǆ">>, <<"ǈ", "Ǉ">>, <<"ǉ", "Ǉ">>, <<"ǋ", "Ǌ">>, <<"ǌ", "Ǌ">>,
       <<"ǎ", "Ǎ">>, <<"ǐ", "Ǐ">>, <<"ǒ", "Ǒ">>, <<"ǔ", "Ǔ">>, <<"ǖ", "Ǖ">>,
       <<"ǘ", "Ǘ">>, <<"ǚ", "Ǚ">>, <<"ǜ", "Ǜ">>, <<"ǝ", "Ǝ">>, <<"ǟ", "Ǟ">>,
       <<"ǡ", "Ǡ">>, <<"ǣ", "Ǣ">>, <<"ǥ", "Ǥ">>, <<"ǧ", "Ǧ">>, <<"ǩ", "Ǩ">>,
       <<"ǫ", "Ǫ">>, <<"ǭ", "Ǭ">>, <<"ǯ", "Ǯ">>, <<"ǲ", "Ǳ">>, <<"ǳ", "Ǳ">>,
       <<"ǵ", "Ǵ">>, <<"ǹ", "Ǹ">>, <<"ǻ", "Ǻ">>, <<"ǽ", "Ǽ">>, <<"ǿ", "Ǿ">>,
       <<"U+0201", "U+0200">>, <<"U+0203", "U+0202">>,
       <<"U+0205", "U+0204">>, <<"U+0207", "U+0206">>,
       <<"U+0209", "U+0208">>, <<"U+020B", "U+020A">>,
       <<"U+020D", "U+020C">>, <<"U+020F", "U+020E">>,
       <<"U+0211", "U+0210">>, <<"U+0213", "U+0212">>,
       <<"U+0215", "U+0214">>, <<"U+0217", "U+0216">>,
       <<"U+0219", "U+0218">>, <<"U+021B", "U+021A">>,
       <<"U+021D", "U+021C">>, <<"U+021F", "U+021E">>,
       <<"U+0223", "U+0222">>, <<"U+0225", "U+0224">>,
       <<"U+0227", "U+0226">>, <<"U+0229", "U+0228">>,
       <<"U+022B", "U+022A">>, <<"U+022D", "U+022C">>,
       <<"U+022F", "U+022E">>, <<"U+0231", "U+0230">>,
       <<"U+0233", "U+0232">>, <<"U+023C", "U+023B">>,
       <<"U+023F", "U+2C7E">>, <<"U+0240", "U+2C7F">>,
       <<"U+0242", "U+0241">>, <<"U+0247", "U+0246">>,
       <<"U+0249", "U+0248">>, <<"U+024B", "U+024A">>,
       <<"U+024D", "U+024C">>, <<"U+024F", "U+024E">>,
       <<"U+0250", "U+2C6F">>, <<"U+0251", "U+2C6D">>,
       <<"U+0252", "U+2C70">>, <<"U+0253", "Ɓ">>, <<"U+0254", "Ɔ">>,
       <<"U+0256", "Ɖ">>, <<"U+0257", "Ɗ">>, <<"U+0259", "Ə">>,
       <<"U+025B", "Ɛ">>, <<"U+025C", "Ɜ">>, <<"U+0260", "Ɠ">>,
       <<"U+0261", "Ɡ">>, <<"U+0263", "Ɣ">>, <<"U+0265", "Ɥ">>,
       <<"U+0266", "Ɦ">>, <<"U+0268", "Ɨ">>, <<"U+0269", "Ɩ">>,
       <<"U+026A", "Ɪ">>, <<"U+026B", "U+2C62">>, <<"U+026C", "Ɬ">>,
       <<"U+026F", "Ɯ">>, <<"U+0271", "U+2C6E">>, <<"U+0272", "Ɲ">>,
       <<"U+0275", "Ɵ">>, <<"U+027D", "U+2C64">>, <<"ʀ", "Ʀ">>, <<"ʂ", "Ʂ">>,
       <<"ʃ", "Ʃ">>, <<"ʇ", "Ʇ">>, <<"ʈ", "Ʈ">>, <<"ʉ", "U+0244">>,
       <<"ʊ", "Ʊ">>, <<"ʋ", "Ʋ">>, <<"ʌ", "U+0245">>, <<"ʒ", "Ʒ">>,
       <<"ʝ", "Ʝ">>, <<"ʞ", "Ʞ">>, <<"U+0345", "Ι">>, <<"U+0371", "U+0370">>,
       <<"U+0373", "U+0372">>, <<"U+0377", "U+0376">>, <<"U+037B", "Ͻ">>,
       <<"U+037C", "Ͼ">>, <<"U+037D", "Ͽ">>, <<"ά", "Ά">>, <<"έ", "Έ">>,
       <<"ή", "Ή">>, <<"ί", "Ί">>, <<"α", "Α">>, <<"β", "Β">>, <<"γ", "Γ">>,
       <<"δ", "Δ">>, <<"ε", "Ε">>, <<"ζ", "Ζ">>, <<"η", "Η">>, <<"θ", "Θ">>,
       <<"ι", "Ι">>, <<"κ", "Κ">>, <<"λ", "Λ">>, <<"μ", "Μ">>, <<"ν", "Ν">>,
       <<"ξ", "Ξ">>, <<"ο", "Ο">>, <<"π", "Π">>, <<"ρ", "Ρ">>, <<"ς", "Σ">>,
       <<"σ", "Σ">>, <<"τ", "Τ">>, <<"υ", "Υ">>, <<"φ", "Φ">>, <<"χ", "Χ">>,
       <<"ψ", "Ψ">>, <<"ω", "Ω">>, <<"ϊ", "Ϊ">>, <<"ϋ", "Ϋ">>, <<"ό", "Ό">>,
       <<"ύ", "Ύ">>, <<"ώ", "Ώ">>, <<"ϐ", "Β">>, <<"ϑ", "Θ">>, <<"ϕ", "Φ">>,
       <<"ϖ", "Π">>, <<"ϗ", "Ϗ">>, <<"ϙ", "Ϙ">>, <<"ϛ", "Ϛ">>, <<"ϝ", "Ϝ">>,
       <<"ϟ", "Ϟ">>, <<"ϡ", "Ϡ">>, <<"ϣ", "Ϣ">>, <<"ϥ", "Ϥ">>, <<"ϧ", "Ϧ">>,
       <<"ϩ", "Ϩ">>, <<"ϫ", "Ϫ">>, <<"ϭ", "Ϭ">>, <<"ϯ", "Ϯ">>, <<"ϰ", "Κ">>,
       <<"ϱ", "Ρ">>, <<"ϲ", "Ϲ">>, <<"ϳ", "U+037F">>, <<"ϵ", "Ε">>,
       <<"ϸ", "Ϸ">>, <<"ϻ", "Ϻ">>, <<"U+0430", "U+0410">>,
       <<"U+0431", "U+0411">>, <<"U+0432", "U+0412">>,
       <<"U+0433", "U+0413">>, <<"U+0434", "U+0414">>,
       <<"U+0435", "U+0415">>, <<"U+0436", "U+0416">>,
       <<"U+0437", "U+0417">>, <<"U+0438", "U+0418">>,
       <<"U+0439", "U+0419">>, <<"U+043A", "U+041A">>,
       <<"U+043B", "U+041B">>, <<"U+043C", "U+041C">>,
       <<"U+043D", "U+041D">>, <<"U+043E", "U+041E">>,
       <<"U+043F", "U+041F">>, <<"U+0440", "U+0420">>,
       <<"U+0441", "U+0421">>, <<"U+0442", "U+0422">>,
       <<"U+0443", "U+0423">>, <<"U+0444", "U+0424">>,
       <<"U+0445", "U+0425">>, <<"U+0446", "U+0426">>,
       <<"U+0447", "U+0427">>, <<"U+0448", "U+0428">>,
       <<"U+0449", "U+0429">>, <<"U+044A", "U+042A">>,
       <<"U+044B", "U+042B">>, <<"U+044C", "U+042C">>,
       <<"U+044D", "U+042D">>, <<"U+044E", "U+042E">>,
       <<"U+044F", "U+042F">>, <<"U+0450", "U+0400">>,
       <<"U+0451", "U+0401">>, <<"U+0452", "U+0402">>,
       <<"U+0453", "U+0403">>, <<"U+0454", "U+0404">>,
       <<"U+0455", "U+0405">>, <<"U+0456", "U+0406">>,
       <<"U+0457", "U+0407">>, <<"U+0458", "U+0408">>,
       <<"U+0459", "U+0409">>, <<"U+045A", "U+040A">>,
       <<"U+045B", "U+040B">>, <<"U+045C", "U+040C">>,
       <<"U+045D", "U+040D">>, <<"U+045E", "U+040E">>,
       <<"U+045F", "U+040F">>, <<"U+0461", "U+0460">>,
       <<"U+0463", "U+0462">>, <<"U+0465", "U+0464">>,
       <<"U+0467", "U+0466">>, <<"U+0469", "U+0468">>,
       <<"U+046B", "U+046A">>, <<"U+046D", "U+046C">>,
       <<"U+046F", "U+046E">>, <<"U+0471", "U+0470">>,
       <<"U+0473", "U+0472">>, <<"U+0475", "U+0474">>,
       <<"U+0477", "U+0476">>, <<"U+0479", "U+0478">>,
       <<"U+047B", "U+047A">>, <<"U+047D", "U+047C">>,
       <<"U+047F", "U+047E">>, <<"ҁ", "Ҁ">>, <<"ҋ", "Ҋ">>, <<"ҍ", "Ҍ">>,
       <<"ҏ", "Ҏ">>, <<"ґ", "Ґ">>, <<"ғ", "Ғ">>, <<"ҕ", "Ҕ">>, <<"җ", "Җ">>,
       <<"ҙ", "Ҙ">>, <<"қ", "Қ">>, <<"ҝ", "Ҝ">>, <<"ҟ", "Ҟ">>, <<"ҡ", "Ҡ">>,
       <<"ң", "Ң">>, <<"ҥ", "Ҥ">>, <<"ҧ", "Ҧ">>, <<"ҩ", "Ҩ">>, <<"ҫ", "Ҫ">>,
       <<"ҭ", "Ҭ">>, <<"ү", "Ү">>, <<"ұ", "Ұ">>, <<"ҳ", "Ҳ">>, <<"ҵ", "Ҵ">>,
       <<"ҷ", "Ҷ">>, <<"ҹ", "Ҹ">>, <<"һ", "Һ">>, <<"ҽ", "Ҽ">>, <<"ҿ", "Ҿ">>,
       <<"ӂ", "Ӂ">>, <<"ӄ", "Ӄ">>, <<"ӆ", "Ӆ">>, <<"ӈ", "Ӈ">>, <<"ӊ", "Ӊ">>,
       <<"ӌ", "Ӌ">>, <<"ӎ", "Ӎ">>, <<"ӏ", "Ӏ">>, <<"ӑ", "Ӑ">>, <<"ӓ", "Ӓ">>,
       <<"ӕ", "Ӕ">>, <<"ӗ", "Ӗ">>, <<"ә", "Ә">>, <<"ӛ", "Ӛ">>, <<"ӝ", "Ӝ">>,
       <<"ӟ", "Ӟ">>, <<"ӡ", "Ӡ">>, <<"ӣ", "Ӣ">>, <<"ӥ", "Ӥ">>, <<"ӧ", "Ӧ">>,
       <<"ө", "Ө">>, <<"ӫ", "Ӫ">>, <<"ӭ", "Ӭ">>, <<"ӯ", "Ӯ">>, <<"ӱ", "Ӱ">>,
       <<"ӳ", "Ӳ">>, <<"ӵ", "Ӵ">>, <<"ӷ", "Ӷ">>, <<"ӹ", "Ӹ">>, <<"ӻ", "Ӻ">>,
       <<"ӽ", "Ӽ">>, <<"ӿ", "Ӿ">>, <<"U+0501", "U+0500">>,
       <<"U+0503", "U+0502">>, <<"U+0505", "U+0504">>,
       <<"U+0507", "U+0506">>, <<"U+0509", "U+0508">>,
       <<"U+050B", "U+050A">>, <<"U+050D", "U+050C">>,
       <<"U+050F", "U+050E">>, <<"U+0511", "U+0510">>,
       <<"U+0513", "U+0512">>, <<"U+0515", "U+0514">>,
       <<"U+0517", "U+0516">>, <<"U+0519", "U+0518">>,
       <<"U+051B", "U+051A">>, <<"U+051D", "U+051C">>,
       <<"U+051F", "U+051E">>, <<"U+0521", "U+0520">>,
       <<"U+0523", "U+0522">>, <<"U+0525", "U+0524">>,
       <<"U+0527", "U+0526">>, <<"U+0529", "U+0528">>,
       <<"U+052B", "U+052A">>, <<"U+052D", "U+052C">>,
       <<"U+052F", "U+052E">>, <<"U+0561", "U+0531">>,
       <<"U+0562", "U+0532">>, <<"U+0563", "U+0533">>,
       <<"U+0564", "U+0534">>, <<"U+0565", "U+0535">>,
       <<"U+0566", "U+0536">>, <<"U+0567", "U+0537">>,
       <<"U+0568", "U+0538">>, <<"U+0569", "U+0539">>,
       <<"U+056A", "U+053A">>, <<"U+056B", "U+053B">>,
       <<"U+056C", "U+053C">>, <<"U+056D", "U+053D">>,
       <<"U+056E", "U+053E">>, <<"U+056F", "U+053F">>,
       <<"U+0570", "U+0540">>, <<"U+0571", "U+0541">>,
       <<"U+0572", "U+0542">>, <<"U+0573", "U+0543">>,
       <<"U+0574", "U+0544">>, <<"U+0575", "U+0545">>,
       <<"U+0576", "U+0546">>, <<"U+0577", "U+0547">>,
       <<"U+0578", "U+0548">>, <<"U+0579", "U+0549">>,
       <<"U+057A", "U+054A">>, <<"U+057B", "U+054B">>,
       <<"U+057C", "U+054C">>, <<"U+057D", "U+054D">>,
       <<"U+057E", "U+054E">>, <<"U+057F", "U+054F">>, <<"ր", "U+0550">>,
       <<"ց", "U+0551">>, <<"ւ", "U+0552">>, <<"փ", "U+0553">>,
       <<"ք", "U+0554">>, <<"օ", "U+0555">>, <<"ֆ", "U+0556">>, <<"ა", "Ა">>,
       <<"ბ", "Ბ">>, <<"გ", "Გ">>, <<"დ", "Დ">>, <<"ე", "Ე">>, <<"ვ", "Ვ">>,
       <<"ზ", "Ზ">>, <<"თ", "Თ">>, <<"ი", "Ი">>, <<"კ", "Კ">>, <<"ლ", "Ლ">>,
       <<"მ", "Მ">>, <<"ნ", "Ნ">>, <<"ო", "Ო">>, <<"პ", "Პ">>, <<"ჟ", "Ჟ">>,
       <<"რ", "Რ">>, <<"ს", "Ს">>, <<"ტ", "Ტ">>, <<"უ", "Უ">>, <<"ფ", "Ფ">>,
       <<"ქ", "Ქ">>, <<"ღ", "Ღ">>, <<"ყ", "Ყ">>, <<"შ", "Შ">>, <<"ჩ", "Ჩ">>,
       <<"ც", "Ც">>, <<"ძ", "Ძ">>, <<"წ", "Წ">>, <<"ჭ", "Ჭ">>, <<"ხ", "Ხ">>,
       <<"ჯ", "Ჯ">>, <<"ჰ", "Ჰ">>, <<"ჱ", "Ჱ">>, <<"ჲ", "Ჲ">>, <<"ჳ", "Ჳ">>,
       <<"ჴ", "Ჴ">>, <<"ჵ", "Ჵ">>, <<"ჶ", "Ჶ">>, <<"ჷ", "Ჷ">>, <<"ჸ", "Ჸ">>,
       <<"ჹ", "Ჹ">>, <<"ჺ", "Ჺ">>, <<"ჽ", "Ჽ">>, <<"ჾ", "Ჾ">>, <<"ჿ", "Ჿ">>,
       <<"ᏸ", "Ᏸ">>, <<"ᏹ", "Ᏹ">>, <<"ᏺ", "Ᏺ">>, <<"ᏻ", "Ᏻ">>, <<"ᏼ", "Ᏼ">>,
       <<"ᏽ", "Ᏽ">>, <<"ᲀ", "U+0412">>, <<"ᲁ", "U+0414">>, <<"ᲂ", "U+041E">>,
       <<"ᲃ", "U+0421">>, <<"ᲄ", "U+0422">>, <<"ᲅ", "U+0422">>,
       <<"ᲆ", "U+042A">>, <<"ᲇ", "U+0462">>, <<"ᲈ", "U+A64A">>,
       <<"U+1D79", "U+A77D">>, <<"U+1D7D", "U+2C63">>, <<"ᶎ", "Ᶎ">>,
       <<"U+1E01", "U+1E00">>, <<"U+1E03", "U+1E02">>,
       <<"U+1E05", "U+1E04">>, <<"U+1E07", "U+1E06">>,
       <<"U+1E09", "U+1E08">>, <<"U+1E0B", "U+1E0A">>,
       <<"U+1E0D", "U+1E0C">>, <<"U+1E0F", "U+1E0E">>,
       <<"U+1E11", "U+1E10">>, <<"U+1E13", "U+1E12">>,
       <<"U+1E15", "U+1E14">>, <<"U+1E17", "U+1E16">>,
       <<"U+1E19", "U+1E18">>, <<"U+1E1B", "U+1E1A">>,
       <<"U+1E1D", "U+1E1C">>, <<"U+1E1F", "U+1E1E">>,
       <<"U+1E21", "U+1E20">>, <<"U+1E23", "U+1E22">>,
       <<"U+1E25", "U+1E24">>, <<"U+1E27", "U+1E26">>,
       <<"U+1E29", "U+1E28">>, <<"U+1E2B", "U+1E2A">>,
       <<"U+1E2D", "U+1E2C">>, <<"U+1E2F", "U+1E2E">>,
       <<"U+1E31", "U+1E30">>, <<"U+1E33", "U+1E32">>,
       <<"U+1E35", "U+1E34">>, <<"U+1E37", "U+1E36">>,
       <<"U+1E39", "U+1E38">>, <<"U+1E3B", "U+1E3A">>,
       <<"U+1E3D", "U+1E3C">>, <<"U+1E3F", "U+1E3E">>,
       <<"U+1E41", "U+1E40">>, <<"U+1E43", "U+1E42">>,
       <<"U+1E45", "U+1E44">>, <<"U+1E47", "U+1E46">>,
       <<"U+1E49", "U+1E48">>, <<"U+1E4B", "U+1E4A">>,
       <<"U+1E4D", "U+1E4C">>, <<"U+1E4F", "U+1E4E">>,
       <<"U+1E51", "U+1E50">>, <<"U+1E53", "U+1E52">>,
       <<"U+1E55", "U+1E54">>, <<"U+1E57", "U+1E56">>,
       <<"U+1E59", "U+1E58">>, <<"U+1E5B", "U+1E5A">>,
       <<"U+1E5D", "U+1E5C">>, <<"U+1E5F", "U+1E5E">>,
       <<"U+1E61", "U+1E60">>, <<"U+1E63", "U+1E62">>,
       <<"U+1E65", "U+1E64">>, <<"U+1E67", "U+1E66">>,
       <<"U+1E69", "U+1E68">>, <<"U+1E6B", "U+1E6A">>,
       <<"U+1E6D", "U+1E6C">>, <<"U+1E6F", "U+1E6E">>,
       <<"U+1E71", "U+1E70">>, <<"U+1E73", "U+1E72">>,
       <<"U+1E75", "U+1E74">>, <<"U+1E77", "U+1E76">>,
       <<"U+1E79", "U+1E78">>, <<"U+1E7B", "U+1E7A">>,
       <<"U+1E7D", "U+1E7C">>, <<"U+1E7F", "U+1E7E">>, <<"ẁ", "Ẁ">>,
       <<"ẃ", "Ẃ">>, <<"ẅ", "Ẅ">>, <<"ẇ", "Ẇ">>, <<"ẉ", "Ẉ">>, <<"ẋ", "Ẋ">>,
       <<"ẍ", "Ẍ">>, <<"ẏ", "Ẏ">>, <<"ẑ", "Ẑ">>, <<"ẓ", "Ẓ">>, <<"ẕ", "Ẕ">>,
       <<"ẛ", "U+1E60">>, <<"ạ", "Ạ">>, <<"ả", "Ả">>, <<"ấ", "Ấ">>,
       <<"ầ", "Ầ">>, <<"ẩ", "Ẩ">>, <<"ẫ", "Ẫ">>, <<"ậ", "Ậ">>, <<"ắ", "Ắ">>,
       <<"ằ", "Ằ">>, <<"ẳ", "Ẳ">>, <<"ẵ", "Ẵ">>, <<"ặ", "Ặ">>, <<"ẹ", "Ẹ">>,
       <<"ẻ", "Ẻ">>, <<"ẽ", "Ẽ">>, <<"ế", "Ế">>, <<"ề", "Ề">>, <<"ể", "Ể">>,
       <<"ễ", "Ễ">>, <<"ệ", "Ệ">>, <<"ỉ", "Ỉ">>, <<"ị", "Ị">>, <<"ọ", "Ọ">>,
       <<"ỏ", "Ỏ">>, <<"ố", "Ố">>, <<"ồ", "Ồ">>, <<"ổ", "Ổ">>, <<"ỗ", "Ỗ">>,
       <<"ộ", "Ộ">>, <<"ớ", "Ớ">>, <<"ờ", "Ờ">>, <<"ở", "Ở">>, <<"ỡ", "Ỡ">>,
       <<"ợ", "Ợ">>, <<"ụ", "Ụ">>, <<"ủ", "Ủ">>, <<"ứ", "Ứ">>, <<"ừ", "Ừ">>,
       <<"ử", "Ử">>, <<"ữ", "Ữ">>, <<"ự", "Ự">>, <<"ỳ", "Ỳ">>, <<"ỵ", "Ỵ">>,
       <<"ỷ", "Ỷ">>, <<"ỹ", "Ỹ">>, <<"ỻ", "Ỻ">>, <<"ỽ", "Ỽ">>, <<"ỿ", "Ỿ">>,
       <<"U+1F00", "U+1F08">>, <<"U+1F01", "U+1F09">>,
       <<"U+1F02", "U+1F0A">>, <<"U+1F03", "U+1F0B">>,
       <<"U+1F04", "U+1F0C">>, <<"U+1F05", "U+1F0D">>,
       <<"U+1F06", "U+1F0E">>, <<"U+1F07", "U+1F0F">>,
       <<"U+1F10", "U+1F18">>, <<"U+1F11", "U+1F19">>,
       <<"U+1F12", "U+1F1A">>, <<"U+1F13", "U+1F1B">>,
       <<"U+1F14", "U+1F1C">>, <<"U+1F15", "U+1F1D">>,
       <<"U+1F20", "U+1F28">>, <<"U+1F21", "U+1F29">>,
       <<"U+1F22", "U+1F2A">>, <<"U+1F23", "U+1F2B">>,
       <<"U+1F24", "U+1F2C">>, <<"U+1F25", "U+1F2D">>,
       <<"U+1F26", "U+1F2E">>, <<"U+1F27", "U+1F2F">>,
       <<"U+1F30", "U+1F38">>, <<"U+1F31", "U+1F39">>,
       <<"U+1F32", "U+1F3A">>, <<"U+1F33", "U+1F3B">>,
       <<"U+1F34", "U+1F3C">>, <<"U+1F35", "U+1F3D">>,
       <<"U+1F36", "U+1F3E">>, <<"U+1F37", "U+1F3F">>,
       <<"U+1F40", "U+1F48">>, <<"U+1F41", "U+1F49">>,
       <<"U+1F42", "U+1F4A">>, <<"U+1F43", "U+1F4B">>,
       <<"U+1F44", "U+1F4C">>, <<"U+1F45", "U+1F4D">>,
       <<"U+1F51", "U+1F59">>, <<"U+1F53", "U+1F5B">>,
       <<"U+1F55", "U+1F5D">>, <<"U+1F57", "U+1F5F">>,
       <<"U+1F60", "U+1F68">>, <<"U+1F61", "U+1F69">>,
       <<"U+1F62", "U+1F6A">>, <<"U+1F63", "U+1F6B">>,
       <<"U+1F64", "U+1F6C">>, <<"U+1F65", "U+1F6D">>,
       <<"U+1F66", "U+1F6E">>, <<"U+1F67", "U+1F6F">>, <<"U+1F70", "Ὰ">>,
       <<"U+1F71", "Ά">>, <<"U+1F72", "Ὲ">>, <<"U+1F73", "Έ">>,
       <<"U+1F74", "Ὴ">>, <<"U+1F75", "Ή">>, <<"U+1F76", "Ὶ">>,
       <<"U+1F77", "Ί">>, <<"U+1F78", "Ὸ">>, <<"U+1F79", "Ό">>,
       <<"U+1F7A", "Ὺ">>, <<"U+1F7B", "Ύ">>, <<"U+1F7C", "Ὼ">>,
       <<"U+1F7D", "Ώ">>, <<"ᾰ", "Ᾰ">>, <<"ᾱ", "Ᾱ">>, <<"ι", "Ι">>,
       <<"ῐ", "Ῐ">>, <<"ῑ", "Ῑ">>, <<"ῠ", "Ῠ">>, <<"ῡ", "Ῡ">>, <<"ῥ", "Ῥ">>,
       <<"U+214E", "U+2132">>, <<"U+2170", "U+2160">>,
       <<"U+2171", "U+2161">>, <<"U+2172", "U+2162">>,
       <<"U+2173", "U+2163">>, <<"U+2174", "U+2164">>,
       <<"U+2175", "U+2165">>, <<"U+2176", "U+2166">>,
       <<"U+2177", "U+2167">>, <<"U+2178", "U+2168">>,
       <<"U+2179", "U+2169">>, <<"U+217A", "U+216A">>,
       <<"U+217B", "U+216B">>, <<"U+217C", "U+216C">>,
       <<"U+217D", "U+216D">>, <<"U+217E", "U+216E">>,
       <<"U+217F", "U+216F">>, <<"ↄ", "Ↄ">>, <<"ⓐ", "Ⓐ">>, <<"ⓑ", "Ⓑ">>,
       <<"ⓒ", "Ⓒ">>, <<"ⓓ", "Ⓓ">>, <<"ⓔ", "Ⓔ">>, <<"ⓕ", "Ⓕ">>, <<"ⓖ", "Ⓖ">>,
       <<"ⓗ", "Ⓗ">>, <<"ⓘ", "Ⓘ">>, <<"ⓙ", "Ⓙ">>, <<"ⓚ", "Ⓚ">>, <<"ⓛ", "Ⓛ">>,
       <<"ⓜ", "Ⓜ">>, <<"ⓝ", "Ⓝ">>, <<"ⓞ", "Ⓞ">>, <<"ⓟ", "Ⓟ">>, <<"ⓠ", "Ⓠ">>,
       <<"ⓡ", "Ⓡ">>, <<"ⓢ", "Ⓢ">>, <<"ⓣ", "Ⓣ">>, <<"ⓤ", "Ⓤ">>, <<"ⓥ", "Ⓥ">>,
       <<"ⓦ", "Ⓦ">>, <<"ⓧ", "Ⓧ">>, <<"ⓨ", "Ⓨ">>, <<"ⓩ", "Ⓩ">>,
       <<"U+2C30", "U+2C00">>, <<"U+2C31", "U+2C01">>,
       <<"U+2C32", "U+2C02">>, <<"U+2C33", "U+2C03">>,
       <<"U+2C34", "U+2C04">>, <<"U+2C35", "U+2C05">>,
       <<"U+2C36", "U+2C06">>, <<"U+2C37", "U+2C07">>,
       <<"U+2C38", "U+2C08">>, <<"U+2C39", "U+2C09">>,
       <<"U+2C3A", "U+2C0A">>, <<"U+2C3B", "U+2C0B">>,
       <<"U+2C3C", "U+2C0C">>, <<"U+2C3D", "U+2C0D">>,
       <<"U+2C3E", "U+2C0E">>, <<"U+2C3F", "U+2C0F">>,
       <<"U+2C40", "U+2C10">>, <<"U+2C41", "U+2C11">>,
       <<"U+2C42", "U+2C12">>, <<"U+2C43", "U+2C13">>,
       <<"U+2C44", "U+2C14">>, <<"U+2C45", "U+2C15">>,
       <<"U+2C46", "U+2C16">>, <<"U+2C47", "U+2C17">>,
       <<"U+2C48", "U+2C18">>, <<"U+2C49", "U+2C19">>,
       <<"U+2C4A", "U+2C1A">>, <<"U+2C4B", "U+2C1B">>,
       <<"U+2C4C", "U+2C1C">>, <<"U+2C4D", "U+2C1D">>,
       <<"U+2C4E", "U+2C1E">>, <<"U+2C4F", "U+2C1F">>,
       <<"U+2C50", "U+2C20">>, <<"U+2C51", "U+2C21">>,
       <<"U+2C52", "U+2C22">>, <<"U+2C53", "U+2C23">>,
       <<"U+2C54", "U+2C24">>, <<"U+2C55", "U+2C25">>,
       <<"U+2C56", "U+2C26">>, <<"U+2C57", "U+2C27">>,
       <<"U+2C58", "U+2C28">>, <<"U+2C59", "U+2C29">>,
       <<"U+2C5A", "U+2C2A">>, <<"U+2C5B", "U+2C2B">>,
       <<"U+2C5C", "U+2C2C">>, <<"U+2C5D", "U+2C2D">>,
       <<"U+2C5E", "U+2C2E">>, <<"U+2C5F", "U+2C2F">>,
       <<"U+2C61", "U+2C60">>, <<"U+2C65", "U+023A">>,
       <<"U+2C66", "U+023E">>, <<"U+2C68", "U+2C67">>,
       <<"U+2C6A", "U+2C69">>, <<"U+2C6C", "U+2C6B">>,
       <<"U+2C73", "U+2C72">>, <<"U+2C76", "U+2C75">>, <<"ⲁ", "Ⲁ">>,
       <<"ⲃ", "Ⲃ">>, <<"ⲅ", "Ⲅ">>, <<"ⲇ", "Ⲇ">>, <<"ⲉ", "Ⲉ">>, <<"ⲋ", "Ⲋ">>,
       <<"ⲍ", "Ⲍ">>, <<"ⲏ", "Ⲏ">>, <<"ⲑ", "Ⲑ">>, <<"ⲓ", "Ⲓ">>, <<"ⲕ", "Ⲕ">>,
       <<"ⲗ", "Ⲗ">>, <<"ⲙ", "Ⲙ">>, <<"ⲛ", "Ⲛ">>, <<"ⲝ", "Ⲝ">>, <<"ⲟ", "Ⲟ">>,
       <<"ⲡ", "Ⲡ">>, <<"ⲣ", "Ⲣ">>, <<"ⲥ", "Ⲥ">>, <<"ⲧ", "Ⲧ">>, <<"ⲩ", "Ⲩ">>,
       <<"ⲫ", "Ⲫ">>, <<"ⲭ", "Ⲭ">>, <<"ⲯ", "Ⲯ">>, <<"ⲱ", "Ⲱ">>, <<"ⲳ", "Ⲳ">>,
       <<"ⲵ", "Ⲵ">>, <<"ⲷ", "Ⲷ">>, <<"ⲹ", "Ⲹ">>, <<"ⲻ", "Ⲻ">>, <<"ⲽ", "Ⲽ">>,
       <<"ⲿ", "Ⲿ">>, <<"ⳁ", "Ⳁ">>, <<"ⳃ", "Ⳃ">>, <<"ⳅ", "Ⳅ">>, <<"ⳇ", "Ⳇ">>,
       <<"ⳉ", "Ⳉ">>, <<"ⳋ", "Ⳋ">>, <<"ⳍ", "Ⳍ">>, <<"ⳏ", "Ⳏ">>, <<"ⳑ", "Ⳑ">>,
       <<"ⳓ", "Ⳓ">>, <<"ⳕ", "Ⳕ">>, <<"ⳗ", "Ⳗ">>, <<"ⳙ", "Ⳙ">>, <<"ⳛ", "Ⳛ">>,
       <<"ⳝ", "Ⳝ">>, <<"ⳟ", "Ⳟ">>, <<"ⳡ", "Ⳡ">>, <<"ⳣ", "Ⳣ">>, <<"ⳬ", "Ⳬ">>,
       <<"ⳮ", "Ⳮ">>, <<"ⳳ", "Ⳳ">>, <<"U+2D00", "Ⴀ">>, <<"U+2D01", "Ⴁ">>,
       <<"U+2D02", "Ⴂ">>, <<"U+2D03", "Ⴃ">>, <<"U+2D04", "Ⴄ">>,
       <<"U+2D05", "Ⴅ">>, <<"U+2D06", "Ⴆ">>, <<"U+2D07", "Ⴇ">>,
       <<"U+2D08", "Ⴈ">>, <<"U+2D09", "Ⴉ">>, <<"U+2D0A", "Ⴊ">>,
       <<"U+2D0B", "Ⴋ">>, <<"U+2D0C", "Ⴌ">>, <<"U+2D0D", "Ⴍ">>,
       <<"U+2D0E", "Ⴎ">>, <<"U+2D0F", "Ⴏ">>, <<"U+2D10", "Ⴐ">>,
       <<"U+2D11", "Ⴑ">>, <<"U+2D12", "Ⴒ">>, <<"U+2D13", "Ⴓ">>,
       <<"U+2D14", "Ⴔ">>, <<"U+2D15", "Ⴕ">>, <<"U+2D16", "Ⴖ">>,
       <<"U+2D17", "Ⴗ">>, <<"U+2D18", "Ⴘ">>, <<"U+2D19", "Ⴙ">>,
       <<"U+2D1A", "Ⴚ">>, <<"U+2D1B", "Ⴛ">>, <<"U+2D1C", "Ⴜ">>,
       <<"U+2D1D", "Ⴝ">>, <<"U+2D1E", "Ⴞ">>, <<"U+2D1F", "Ⴟ">>,
       <<"U+2D20", "Ⴠ">>, <<"U+2D21", "Ⴡ">>, <<"U+2D22", "Ⴢ">>,
       <<"U+2D23", "Ⴣ">>, <<"U+2D24", "Ⴤ">>, <<"U+2D25", "Ⴥ">>,
       <<"U+2D27", "Ⴧ">>, <<"U+2D2D", "Ⴭ">>, <<"U+A641", "U+A640">>,
       <<"U+A643", "U+A642">>, <<"U+A645", "U+A644">>,
       <<"U+A647", "U+A646">>, <<"U+A649", "U+A648">>,
       <<"U+A64B", "U+A64A">>, <<"U+A64D", "U+A64C">>,
       <<"U+A64F", "U+A64E">>, <<"U+A651", "U+A650">>,
       <<"U+A653", "U+A652">>, <<"U+A655", "U+A654">>,
       <<"U+A657", "U+A656">>, <<"U+A659", "U+A658">>,
       <<"U+A65B", "U+A65A">>, <<"U+A65D", "U+A65C">>,
       <<"U+A65F", "U+A65E">>, <<"U+A661", "U+A660">>,
       <<"U+A663", "U+A662">>, <<"U+A665", "U+A664">>,
       <<"U+A667", "U+A666">>, <<"U+A669", "U+A668">>,
       <<"U+A66B", "U+A66A">>, <<"U+A66D", "U+A66C">>, <<"ꚁ", "Ꚁ">>,
       <<"ꚃ", "Ꚃ">>, <<"ꚅ", "Ꚅ">>, <<"ꚇ", "Ꚇ">>, <<"ꚉ", "Ꚉ">>, <<"ꚋ", "Ꚋ">>,
       <<"ꚍ", "Ꚍ">>, <<"ꚏ", "Ꚏ">>, <<"ꚑ", "Ꚑ">>, <<"ꚓ", "Ꚓ">>, <<"ꚕ", "Ꚕ">>,
       <<"ꚗ", "Ꚗ">>, <<"ꚙ", "Ꚙ">>, <<"ꚛ", "Ꚛ">>, <<"U+A723", "U+A722">>,
       <<"U+A725", "U+A724">>, <<"U+A727", "U+A726">>,
       <<"U+A729", "U+A728">>, <<"U+A72B", "U+A72A">>,
       <<"U+A72D", "U+A72C">>, <<"U+A72F", "U+A72E">>,
       <<"U+A733", "U+A732">>, <<"U+A735", "U+A734">>,
       <<"U+A737", "U+A736">>, <<"U+A739", "U+A738">>,
       <<"U+A73B", "U+A73A">>, <<"U+A73D", "U+A73C">>,
       <<"U+A73F", "U+A73E">>, <<"U+A741", "U+A740">>,
       <<"U+A743", "U+A742">>, <<"U+A745", "U+A744">>,
       <<"U+A747", "U+A746">>, <<"U+A749", "U+A748">>,
       <<"U+A74B", "U+A74A">>, <<"U+A74D", "U+A74C">>,
       <<"U+A74F", "U+A74E">>, <<"U+A751", "U+A750">>,
       <<"U+A753", "U+A752">>, <<"U+A755", "U+A754">>,
       <<"U+A757", "U+A756">>, <<"U+A759", "U+A758">>,
       <<"U+A75B", "U+A75A">>, <<"U+A75D", "U+A75C">>,
       <<"U+A75F", "U+A75E">>, <<"U+A761", "U+A760">>,
       <<"U+A763", "U+A762">>, <<"U+A765", "U+A764">>,
       <<"U+A767", "U+A766">>, <<"U+A769", "U+A768">>,
       <<"U+A76B", "U+A76A">>, <<"U+A76D", "U+A76C">>,
       <<"U+A76F", "U+A76E">>, <<"U+A77A", "U+A779">>,
       <<"U+A77C", "U+A77B">>, <<"U+A77F", "U+A77E">>, <<"ꞁ", "Ꞁ">>,
       <<"ꞃ", "Ꞃ">>, <<"ꞅ", "Ꞅ">>, <<"ꞇ", "Ꞇ">>, <<"ꞌ", "Ꞌ">>, <<"ꞑ", "Ꞑ">>,
       <<"ꞓ", "Ꞓ">>, <<"ꞔ", "Ꞔ">>, <<"ꞗ", "Ꞗ">>, <<"ꞙ", "Ꞙ">>, <<"ꞛ", "Ꞛ">>,
       <<"ꞝ", "Ꞝ">>, <<"ꞟ", "Ꞟ">>, <<"ꞡ", "Ꞡ">>, <<"ꞣ", "Ꞣ">>, <<"ꞥ", "Ꞥ">>,
       <<"ꞧ", "Ꞧ">>, <<"ꞩ", "Ꞩ">>, <<"ꞵ", "Ꞵ">>, <<"ꞷ", "Ꞷ">>, <<"ꞹ", "Ꞹ">>,
       <<"ꞻ", "Ꞻ">>, <<"ꞽ", "Ꞽ">>, <<"ꞿ", "Ꞿ">>, <<"ꟁ", "Ꟁ">>, <<"ꟃ", "Ꟃ">>,
       <<"ꟈ", "Ꟈ">>, <<"ꟊ", "Ꟊ">>, <<"ꟑ", "Ꟑ">>, <<"ꟗ", "Ꟗ">>, <<"ꟙ", "Ꟙ">>,
       <<"ꟶ", "Ꟶ">>, <<"U+AB53", "Ꭓ">>, <<"U+AB70", "Ꭰ">>, <<"U+AB71", "Ꭱ">>,
       <<"U+AB72", "Ꭲ">>, <<"U+AB73", "Ꭳ">>, <<"U+AB74", "Ꭴ">>,
       <<"U+AB75", "Ꭵ">>, <<"U+AB76", "Ꭶ">>, <<"U+AB77", "Ꭷ">>,
       <<"U+AB78", "Ꭸ">>, <<"U+AB79", "Ꭹ">>, <<"U+AB7A", "Ꭺ">>,
       <<"U+AB7B", "Ꭻ">>, <<"U+AB7C", "Ꭼ">>, <<"U+AB7D", "Ꭽ">>,
       <<"U+AB7E", "Ꭾ">>, <<"U+AB7F", "Ꭿ">>, <<"ꮀ", "Ꮀ">>, <<"ꮁ", "Ꮁ">>,
       <<"ꮂ", "Ꮂ">>, <<"ꮃ", "Ꮃ">>, <<"ꮄ", "Ꮄ">>, <<"ꮅ", "Ꮅ">>, <<"ꮆ", "Ꮆ">>,
       <<"ꮇ", "Ꮇ">>, <<"ꮈ", "Ꮈ">>, <<"ꮉ", "Ꮉ">>, <<"ꮊ", "Ꮊ">>, <<"ꮋ", "Ꮋ">>,
       <<"ꮌ", "Ꮌ">>, <<"ꮍ", "Ꮍ">>, <<"ꮎ", "Ꮎ">>, <<"ꮏ", "Ꮏ">>, <<"ꮐ", "Ꮐ">>,
       <<"ꮑ", "Ꮑ">>, <<"ꮒ", "Ꮒ">>, <<"ꮓ", "Ꮓ">>, <<"ꮔ", "Ꮔ">>, <<"ꮕ", "Ꮕ">>,
       <<"ꮖ", "Ꮖ">>, <<"ꮗ", "Ꮗ">>, <<"ꮘ", "Ꮘ">>, <<"ꮙ", "Ꮙ">>, <<"ꮚ", "Ꮚ">>,
       <<"ꮛ", "Ꮛ">>, <<"ꮜ", "Ꮜ">>, <<"ꮝ", "Ꮝ">>, <<"ꮞ", "Ꮞ">>, <<"ꮟ", "Ꮟ">>,
       <<"ꮠ", "Ꮠ">>, <<"ꮡ", "Ꮡ">>, <<"ꮢ", "Ꮢ">>, <<"ꮣ", "Ꮣ">>, <<"ꮤ", "Ꮤ">>,
       <<"ꮥ", "Ꮥ">>, <<"ꮦ", "Ꮦ">>, <<"ꮧ", "Ꮧ">>, <<"ꮨ", "Ꮨ">>, <<"ꮩ", "Ꮩ">>,
       <<"ꮪ", "Ꮪ">>, <<"ꮫ", "Ꮫ">>, <<"ꮬ", "Ꮬ">>, <<"ꮭ", "Ꮭ">>, <<"ꮮ", "Ꮮ">>,
       <<"ꮯ", "Ꮯ">>, <<"ꮰ", "Ꮰ">>, <<"ꮱ", "Ꮱ">>, <<"ꮲ", "Ꮲ">>, <<"ꮳ", "Ꮳ">>,
       <<"ꮴ", "Ꮴ">>, <<"ꮵ", "Ꮵ">>, <<"ꮶ", "Ꮶ">>, <<"ꮷ", "Ꮷ">>, <<"ꮸ", "Ꮸ">>,
       <<"ꮹ", "Ꮹ">>, <<"ꮺ", "Ꮺ">>, <<"ꮻ", "Ꮻ">>, <<"ꮼ", "Ꮼ">>, <<"ꮽ", "Ꮽ">>,
       <<"ꮾ", "Ꮾ">>, <<"ꮿ", "Ꮿ">>, <<"U+FF41", "U+FF21">>,
       <<"U+FF42", "U+FF22">>, <<"U+FF43", "U+FF23">>,
       <<"U+FF44", "U+FF24">>, <<"U+FF45", "U+FF25">>,
       <<"U+FF46", "U+FF26">>, <<"U+FF47", "U+FF27">>,
       <<"U+FF48", "U+FF28">>, <<"U+FF49", "U+FF29">>,
       <<"U+FF4A", "U+FF2A">>, <<"U+FF4B", "U+FF2B">>,
       <<"U+FF4C", "U+FF2C">>, <<"U+FF4D", "U+FF2D">>,
       <<"U+FF4E", "U+FF2E">>, <<"U+FF4F", "U+FF2F">>,
       <<"U+FF50", "U+FF30">>, <<"U+FF51", "U+FF31">>,
       <<"U+FF52", "U+FF32">>, <<"U+FF53", "U+FF33">>,
       <<"U+FF54", "U+FF34">>, <<"U+FF55", "U+FF35">>,
       <<"U+FF56", "U+FF36">>, <<"U+FF57", "U+FF37">>,
       <<"U+FF58", "U+FF38">>, <<"U+FF59", "U+FF39">>,
       <<"U+FF5A", "U+FF3A">>, <<"U+10428", "U+10400">>,
       <<"U+10429", "U+10401">>, <<"U+1042A", "U+10402">>,
       <<"U+1042B", "U+10403">>, <<"U+1042C", "U+10404">>,
       <<"U+1042D", "U+10405">>, <<"U+1042E", "U+10406">>,
       <<"U+1042F", "U+10407">>, <<"U+10430", "U+10408">>,
       <<"U+10431", "U+10409">>, <<"U+10432", "U+1040A">>,
       <<"U+10433", "U+1040B">>, <<"U+10434", "U+1040C">>,
       <<"U+10435", "U+1040D">>, <<"U+10436", "U+1040E">>,
       <<"U+10437", "U+1040F">>, <<"U+10438", "U+10410">>,
       <<"U+10439", "U+10411">>, <<"U+1043A", "U+10412">>,
       <<"U+1043B", "U+10413">>, <<"U+1043C", "U+10414">>,
       <<"U+1043D", "U+10415">>, <<"U+1043E", "U+10416">>,
       <<"U+1043F", "U+10417">>, <<"U+10440", "U+10418">>,
       <<"U+10441", "U+10419">>, <<"U+10442", "U+1041A">>,
       <<"U+10443", "U+1041B">>, <<"U+10444", "U+1041C">>,
       <<"U+10445", "U+1041D">>, <<"U+10446", "U+1041E">>,
       <<"U+10447", "U+1041F">>, <<"U+10448", "U+10420">>,
       <<"U+10449", "U+10421">>, <<"U+1044A", "U+10422">>,
       <<"U+1044B", "U+10423">>, <<"U+1044C", "U+10424">>,
       <<"U+1044D", "U+10425">>, <<"U+1044E", "U+10426">>,
       <<"U+1044F", "U+10427">>, <<"U+104D8", "U+104B0">>,
       <<"U+104D9", "U+104B1">>, <<"U+104DA", "U+104B2">>,
       <<"U+104DB", "U+104B3">>, <<"U+104DC", "U+104B4">>,
       <<"U+104DD", "U+104B5">>, <<"U+104DE", "U+104B6">>,
       <<"U+104DF", "U+104B7">>, <<"U+104E0", "U+104B8">>,
       <<"U+104E1", "U+104B9">>, <<"U+104E2", "U+104BA">>,
       <<"U+104E3", "U+104BB">>, <<"U+104E4", "U+104BC">>,
       <<"U+104E5", "U+104BD">>, <<"U+104E6", "U+104BE">>,
       <<"U+104E7", "U+104BF">>, <<"U+104E8", "U+104C0">>,
       <<"U+104E9", "U+104C1">>, <<"U+104EA", "U+104C2">>,
       <<"U+104EB", "U+104C3">>, <<"U+104EC", "U+104C4">>,
       <<"U+104ED", "U+104C5">>, <<"U+104EE", "U+104C6">>,
       <<"U+104EF", "U+104C7">>, <<"U+104F0", "U+104C8">>,
       <<"U+104F1", "U+104C9">>, <<"U+104F2", "U+104CA">>,
       <<"U+104F3", "U+104CB">>, <<"U+104F4", "U+104CC">>,
       <<"U+104F5", "U+104CD">>, <<"U+104F6", "U+104CE">>,
       <<"U+104F7", "U+104CF">>, <<"U+104F8", "U+104D0">>,
       <<"U+104F9", "U+104D1">>, <<"U+104FA", "U+104D2">>,
       <<"U+104FB", "U+104D3">>, <<"U+10597", "U+10570">>,
       <<"U+10598", "U+10571">>, <<"U+10599", "U+10572">>,
       <<"U+1059A", "U+10573">>, <<"U+1059B", "U+10574">>,
       <<"U+1059C", "U+10575">>, <<"U+1059D", "U+10576">>,
       <<"U+1059E", "U+10577">>, <<"U+1059F", "U+10578">>,
       <<"U+105A0", "U+10579">>, <<"U+105A1", "U+1057A">>,
       <<"U+105A3", "U+1057C">>, <<"U+105A4", "U+1057D">>,
       <<"U+105A5", "U+1057E">>, <<"U+105A6", "U+1057F">>,
       <<"U+105A7", "U+10580">>, <<"U+105A8", "U+10581">>,
       <<"U+105A9", "U+10582">>, <<"U+105AA", "U+10583">>,
       <<"U+105AB", "U+10584">>, <<"U+105AC", "U+10585">>,
       <<"U+105AD", "U+10586">>, <<"U+105AE", "U+10587">>,
       <<"U+105AF", "U+10588">>, <<"U+105B0", "U+10589">>,
       <<"U+105B1", "U+1058A">>, <<"U+105B3", "U+1058C">>,
       <<"U+105B4", "U+1058D">>, <<"U+105B5", "U+1058E">>,
       <<"U+105B6", "U+1058F">>, <<"U+105B7", "U+10590">>,
       <<"U+105B8", "U+10591">>, <<"U+105B9", "U+10592">>,
       <<"U+105BB", "U+10594">>, <<"U+105BC", "U+10595">>,
       <<"U+10CC0", "U+10C80">>, <<"U+10CC1", "U+10C81">>,
       <<"U+10CC2", "U+10C82">>, <<"U+10CC3", "U+10C83">>,
       <<"U+10CC4", "U+10C84">>, <<"U+10CC5", "U+10C85">>,
       <<"U+10CC6", "U+10C86">>, <<"U+10CC7", "U+10C87">>,
       <<"U+10CC8", "U+10C88">>, <<"U+10CC9", "U+10C89">>,
       <<"U+10CCA", "U+10C8A">>, <<"U+10CCB", "U+10C8B">>,
       <<"U+10CCC", "U+10C8C">>, <<"U+10CCD", "U+10C8D">>,
       <<"U+10CCE", "U+10C8E">>, <<"U+10CCF", "U+10C8F">>,
       <<"U+10CD0", "U+10C90">>, <<"U+10CD1", "U+10C91">>,
       <<"U+10CD2", "U+10C92">>, <<"U+10CD3", "U+10C93">>,
       <<"U+10CD4", "U+10C94">>, <<"U+10CD5", "U+10C95">>,
       <<"U+10CD6", "U+10C96">>, <<"U+10CD7", "U+10C97">>,
       <<"U+10CD8", "U+10C98">>, <<"U+10CD9", "U+10C99">>,
       <<"U+10CDA", "U+10C9A">>, <<"U+10CDB", "U+10C9B">>,
       <<"U+10CDC", "U+10C9C">>, <<"U+10CDD", "U+10C9D">>,
       <<"U+10CDE", "U+10C9E">>, <<"U+10CDF", "U+10C9F">>,
       <<"U+10CE0", "U+10CA0">>, <<"U+10CE1", "U+10CA1">>,
       <<"U+10CE2", "U+10CA2">>, <<"U+10CE3", "U+10CA3">>,
       <<"U+10CE4", "U+10CA4">>, <<"U+10CE5", "U+10CA5">>,
       <<"U+10CE6", "U+10CA6">>, <<"U+10CE7", "U+10CA7">>,
       <<"U+10CE8", "U+10CA8">>, <<"U+10CE9", "U+10CA9">>,
       <<"U+10CEA", "U+10CAA">>, <<"U+10CEB", "U+10CAB">>,
       <<"U+10CEC", "U+10CAC">>, <<"U+10CED", "U+10CAD">>,
       <<"U+10CEE", "U+10CAE">>, <<"U+10CEF", "U+10CAF">>,
       <<"U+10CF0", "U+10CB0">>, <<"U+10CF1", "U+10CB1">>,
       <<"U+10CF2", "U+10CB2">>, <<"U+118C0", "U+118A0">>,
       <<"U+118C1", "U+118A1">>, <<"U+118C2", "U+118A2">>,
       <<"U+118C3", "U+118A3">>, <<"U+118C4", "U+118A4">>,
       <<"U+118C5", "U+118A5">>, <<"U+118C6", "U+118A6">>,
       <<"U+118C7", "U+118A7">>, <<"U+118C8", "U+118A8">>,
       <<"U+118C9", "U+118A9">>, <<"U+118CA", "U+118AA">>,
       <<"U+118CB", "U+118AB">>, <<"U+118CC", "U+118AC">>,
       <<"U+118CD", "U+118AD">>, <<"U+118CE", "U+118AE">>,
       <<"U+118CF", "U+118AF">>, <<"U+118D0", "U+118B0">>,
       <<"U+118D1", "U+118B1">>, <<"U+118D2", "U+118B2">>,
       <<"U+118D3", "U+118B3">>, <<"U+118D4", "U+118B4">>,
       <<"U+118D5", "U+118B5">>, <<"U+118D6", "U+118B6">>,
       <<"U+118D7", "U+118B7">>, <<"U+118D8", "U+118B8">>,
       <<"U+118D9", "U+118B9">>, <<"U+118DA", "U+118BA">>,
       <<"U+118DB", "U+118BB">>, <<"U+118DC", "U+118BC">>,
       <<"U+118DD", "U+118BD">>, <<"U+118DE", "U+118BE">>,
       <<"U+118DF", "U+118BF">>, <<"U+16E60", "U+16E40">>,
       <<"U+16E61", "U+16E41">>, <<"U+16E62", "U+16E42">>,
       <<"U+16E63", "U+16E43">>, <<"U+16E64", "U+16E44">>,
       <<"U+16E65", "U+16E45">>, <<"U+16E66", "U+16E46">>,
       <<"U+16E67", "U+16E47">>, <<"U+16E68", "U+16E48">>,
       <<"U+16E69", "U+16E49">>, <<"U+16E6A", "U+16E4A">>,
       <<"U+16E6B", "U+16E4B">>, <<"U+16E6C", "U+16E4C">>,
       <<"U+16E6D", "U+16E4D">>, <<"U+16E6E", "U+16E4E">>,
       <<"U+16E6F", "U+16E4F">>, <<"U+16E70", "U+16E50">>,
       <<"U+16E71", "U+16E51">>, <<"U+16E72", "U+16E52">>,
       <<"U+16E73", "U+16E53">>, <<"U+16E74", "U+16E54">>,
       <<"U+16E75", "U+16E55">>, <<"U+16E76", "U+16E56">>,
       <<"U+16E77", "U+16E57">>, <<"U+16E78", "U+16E58">>,
       <<"U+16E79", "U+16E59">>, <<"U+16E7A", "U+16E5A">>,
       <<"U+16E7B", "U+16E5B">>, <<"U+16E7C", "U+16E5C">>,
       <<"U+16E7D", "U+16E5D">>, <<"U+16E7E", "U+16E5E">>,
       <<"U+16E7F", "U+16E5F">>, <<"U+1E922", "U+1E900">>,
       <<"U+1E923", "U+1E901">>, <<"U+1E924", "U+1E902">>,
       <<"U+1E925", "U+1E903">>, <<"U+1E926", "U+1E904">>,
       <<"U+1E927", "U+1E905">>, <<"U+1E928", "U+1E906">>,
       <<"U+1E929", "U+1E907">>, <<"U+1E92A", "U+1E908">>,
       <<"U+1E92B", "U+1E909">>, <<"U+1E92C", "U+1E90A">>,
       <<"U+1E92D", "U+1E90B">>, <<"U+1E92E", "U+1E90C">>,
       <<"U+1E92F", "U+1E90D">>, <<"U+1E930", "U+1E90E">>,
       <<"U+1E931", "U+1E90F">>, <<"U+1E932", "U+1E910">>,
       <<"U+1E933", "U+1E911">>, <<"U+1E934", "U+1E912">>,
       <<"U+1E935", "U+1E913">>, <<"U+1E936", "U+1E914">>,
       <<"U+1E937", "U+1E915">>, <<"U+1E938", "U+1E916">>,
       <<"U+1E939", "U+1E917">>, <<"U+1E93A", "U+1E918">>,
       <<"U+1E93B", "U+1E919">>, <<"U+1E93C", "U+1E91A">>,
       <<"U+1E93D", "U+1E91B">>, <<"U+1E93E", "U+1E91C">>,
       <<"U+1E93F", "U+1E91D">>, <<"U+1E940", "U+1E91E">>,
       <<"U+1E941", "U+1E91F">>, <<"U+1E942", "U+1E920">>,
       <<"U+1E943", "U+1E921">>
    >>

\* The characters whose upper case is longer than one character: the upper
\* case of U+00DF is "SS".
UpperSpecial ==
    <<
       <<"ß", <<"S", "S">>>>, <<"U+0149", <<"ʼ", "N">>>>,
       <<"ǰ", <<"J", "U+030C">>>>, <<"ΐ", <<"Ι", "U+0308", "U+0301">>>>,
       <<"ΰ", <<"Υ", "U+0308", "U+0301">>>>, <<"և", <<"U+0535", "U+0552">>>>,
       <<"ẖ", <<"H", "U+0331">>>>, <<"ẗ", <<"T", "U+0308">>>>,
       <<"ẘ", <<"W", "U+030A">>>>, <<"ẙ", <<"Y", "U+030A">>>>,
       <<"ẚ", <<"A", "ʾ">>>>, <<"U+1F50", <<"Υ", "U+0313">>>>,
       <<"U+1F52", <<"Υ", "U+0313", "U+0300">>>>,
       <<"U+1F54", <<"Υ", "U+0313", "U+0301">>>>,
       <<"U+1F56", <<"Υ", "U+0313", "U+0342">>>>, <<"ᾀ", <<"U+1F08", "Ι">>>>,
       <<"ᾁ", <<"U+1F09", "Ι">>>>, <<"ᾂ", <<"U+1F0A", "Ι">>>>,
       <<"ᾃ", <<"U+1F0B", "Ι">>>>, <<"ᾄ", <<"U+1F0C", "Ι">>>>,
       <<"ᾅ", <<"U+1F0D", "Ι">>>>, <<"ᾆ", <<"U+1F0E", "Ι">>>>,
       <<"ᾇ", <<"U+1F0F", "Ι">>>>, <<"ᾈ", <<"U+1F08", "Ι">>>>,
       <<"ᾉ", <<"U+1F09", "Ι">>>>, <<"ᾊ", <<"U+1F0A", "Ι">>>>,
       <<"ᾋ", <<"U+1F0B", "Ι">>>>, <<"ᾌ", <<"U+1F0C", "Ι">>>>,
       <<"ᾍ", <<"U+1F0D", "Ι">>>>, <<"ᾎ", <<"U+1F0E", "Ι">>>>,
       <<"ᾏ", <<"U+1F0F", "Ι">>>>, <<"ᾐ", <<"U+1F28", "Ι">>>>,
       <<"ᾑ", <<"U+1F29", "Ι">>>>, <<"ᾒ", <<"U+1F2A", "Ι">>>>,
       <<"ᾓ", <<"U+1F2B", "Ι">>>>, <<"ᾔ", <<"U+1F2C", "Ι">>>>,
       <<"ᾕ", <<"U+1F2D", "Ι">>>>, <<"ᾖ", <<"U+1F2E", "Ι">>>>,
       <<"ᾗ", <<"U+1F2F", "Ι">>>>, <<"ᾘ", <<"U+1F28", "Ι">>>>,
       <<"ᾙ", <<"U+1F29", "Ι">>>>, <<"ᾚ", <<"U+1F2A", "Ι">>>>,
       <<"ᾛ", <<"U+1F2B", "Ι">>>>, <<"ᾜ", <<"U+1F2C", "Ι">>>>,
       <<"ᾝ", <<"U+1F2D", "Ι">>>>, <<"ᾞ", <<"U+1F2E", "Ι">>>>,
       <<"ᾟ", <<"U+1F2F", "Ι">>>>, <<"ᾠ", <<"U+1F68", "Ι">>>>,
       <<"ᾡ", <<"U+1F69", "Ι">>>>, <<"ᾢ", <<"U+1F6A", "Ι">>>>,
       <<"ᾣ", <<"U+1F6B", "Ι">>>>, <<"ᾤ", <<"U+1F6C", "Ι">>>>,
       <<"ᾥ", <<"U+1F6D", "Ι">>>>, <<"ᾦ", <<"U+1F6E", "Ι">>>>,
       <<"ᾧ", <<"U+1F6F", "Ι">>>>, <<"ᾨ", <<"U+1F68", "Ι">>>>,
       <<"ᾩ", <<"U+1F69", "Ι">>>>, <<"ᾪ", <<"U+1F6A", "Ι">>>>,
       <<"ᾫ", <<"U+1F6B", "Ι">>>>, <<"ᾬ", <<"U+1F6C", "Ι">>>>,
       <<"ᾭ", <<"U+1F6D", "Ι">>>>, <<"ᾮ", <<"U+1F6E", "Ι">>>>,
       <<"ᾯ", <<"U+1F6F", "Ι">>>>, <<"ᾲ", <<"Ὰ", "Ι">>>>,
       <<"ᾳ", <<"Α", "Ι">>>>, <<"ᾴ", <<"Ά", "Ι">>>>,
       <<"ᾶ", <<"Α", "U+0342">>>>, <<"ᾷ", <<"Α", "U+0342", "Ι">>>>,
       <<"ᾼ", <<"Α", "Ι">>>>, <<"ῂ", <<"Ὴ", "Ι">>>>, <<"ῃ", <<"Η", "Ι">>>>,
       <<"ῄ", <<"Ή", "Ι">>>>, <<"ῆ", <<"Η", "U+0342">>>>,
       <<"ῇ", <<"Η", "U+0342", "Ι">>>>, <<"ῌ", <<"Η", "Ι">>>>,
       <<"ῒ", <<"Ι", "U+0308", "U+0300">>>>,
       <<"ΐ", <<"Ι", "U+0308", "U+0301">>>>, <<"ῖ", <<"Ι", "U+0342">>>>,
       <<"ῗ", <<"Ι", "U+0308", "U+0342">>>>,
       <<"ῢ", <<"Υ", "U+0308", "U+0300">>>>,
       <<"ΰ", <<"Υ", "U+0308", "U+0301">>>>, <<"ῤ", <<"Ρ", "U+0313">>>>,
       <<"ῦ", <<"Υ", "U+0342">>>>, <<"ῧ", <<"Υ", "U+0308", "U+0342">>>>,
       <<"ῲ", <<"Ὼ", "Ι">>>>, <<"ῳ", <<"Ω", "Ι">>>>, <<"ῴ", <<"Ώ", "Ι">>>>,
       <<"ῶ", <<"Ω", "U+0342">>>>, <<"ῷ", <<"Ω", "U+0342", "Ι">>>>,
       <<"ῼ", <<"Ω", "Ι">>>>, <<"U+FB00", <<"F", "F">>>>,
       <<"U+FB01", <<"F", "I">>>>, <<"U+FB02", <<"F", "L">>>>,
       <<"U+FB03", <<"F", "F", "I">>>>, <<"U+FB04", <<"F", "F", "L">>>>,
       <<"U+FB05", <<"S", "T">>>>, <<"U+FB06", <<"S", "T">>>>,
       <<"U+FB13", <<"U+0544", "U+0546">>>>,
       <<"U+FB14", <<"U+0544", "U+0535">>>>,
       <<"U+FB15", <<"U+0544", "U+053B">>>>,
       <<"U+FB16", <<"U+054E", "U+0546">>>>,
       <<"U+FB17", <<"U+0544", "U+053D">>>>
    >>

\* The characters with the property Case_Ignorable.
CaseIgnorable ==
    {
       "'", ".", ":", "^", "U+0060", "¨", "­", "¯", "´", "·", "¸", "ʰ", "ʱ",
       "ʲ", "ʳ", "ʴ", "ʵ", "ʶ", "ʷ", "ʸ", "ʹ", "ʺ", "ʻ", "ʼ", "ʽ", "ʾ", "ʿ",
       "ˀ", "ˁ", "˂", "˃", "˄", "˅", "ˆ", "ˇ", "ˈ", "ˉ", "ˊ", "ˋ", "ˌ", "ˍ",
       "ˎ", "ˏ", "ː", "ˑ", "˒", "˓", "˔", "˕", "˖", "˗", "˘", "˙", "˚", "˛",
       "˜", "˝", "˞", "˟", "ˠ", "ˡ", "ˢ", "ˣ", "ˤ", "˥", "˦", "˧", "˨", "˩",
       "˪", "˫", "ˬ", "˭", "ˮ", "˯", "˰", "˱", "˲", "˳", "˴", "˵", "˶", "˷",
       "˸", "˹", "˺", "˻", "˼", "˽", "˾", "˿", "U+0300", "U+0301", "U+0302",
       "U+0303", "U+0304", "U+0305", "U+0306", "U+0307", "U+0308", "U+0309",
       "U+030A", "U+030B", "U+030C", "U+030D", "U+030E", "U+030F", "U+0310",
       "U+0311", "U+0312", "U+0313", "U+0314", "U+0315", "U+0316", "U+0317",
       "U+0318", "U+0319", "U+031A", "U+031B", "U+031C", "U+031D", "U+031E",
       "U+031F", "U+0320", "U+0321", "U+0322", "U+0323", "U+0324", "U+0325",
       "U+0326", "U+0327", "U+0328", "U+0329", "U+032A", "U+032B", "U+032C",
       "U+032D", "U+032E", "U+032F", "U+0330", "U+0331", "U+0332", "U+0333",
       "U+0334", "U+0335", "U+0336", "U+0337", "U+0338", "U+0339", "U+033A",
       "U+033B", "U+033C", "U+033D", "U+033E", "U+033F", "U+0340", "U+0341",
       "U+0342", "U+0343", "U+0344", "U+0345", "U+0346", "U+0347", "U+0348",
       "U+0349", "U+034A", "U+034B", "U+034C", "U+034D", "U+034E", "U+034F",
       "U+0350", "U+0351", "U+0352", "U+0353", "U+0354", "U+0355", "U+0356",
       "U+0357", "U+0358", "U+0359", "U+035A", "U+035B", "U+035C", "U+035D",
       "U+035E", "U+035F", "U+0360", "U+0361", "U+0362", "U+0363", "U+0364",
       "U+0365", "U+0366", "U+0367", "U+0368", "U+0369", "U+036A", "U+036B",
       "U+036C", "U+036D", "U+036E", "U+036F", "U+0374", "U+0375", "U+037A",
       "΄", "΅", "·", "҃", "҄", "҅", "҆", "҇", "҈", "҉", "U+0559", "U+055F",
       "֑", "֒", "֓", "֔", "֕", "֖", "֗", "֘", "֙", "֚", "֛", "֜", "֝", "֞",
       "֟", "֠", "֡", "֢", "֣", "֤", "֥", "֦", "֧", "֨", "֩", "֪", "֫", "֬",
       "֭", "֮", "֯", "ְ", "ֱ", "ֲ", "ֳ", "ִ", "ֵ", "ֶ", "ַ", "ָ", "ֹ", "ֺ",
       "ֻ", "ּ", "ֽ", "ֿ", "ׁ", "ׂ", "ׄ", "ׅ", "ׇ", "״", "U+0600", "U+0601",
       "U+0602", "U+0603", "U+0604", "U+0605", "U+0610", "U+0611", "U+0612",
       "U+0613", "U+0614", "U+0615", "U+0616", "U+0617", "U+0618", "U+0619",
       "U+061A", "U+061C", "U+0640", "U+064B", "U+064C", "U+064D", "U+064E",
       "U+064F", "U+0650", "U+0651", "U+0652", "U+0653", "U+0654", "U+0655",
       "U+0656", "U+0657", "U+0658", "U+0659", "U+065A", "U+065B", "U+065C",
       "U+065D", "U+065E", "U+065F", "U+0670", "ۖ", "ۗ", "ۘ", "ۙ", "ۚ", "ۛ",
       "ۜ", "۝", "۟", "۠", "ۡ", "ۢ", "ۣ", "ۤ", "ۥ", "ۦ", "ۧ", "ۨ", "۪", "۫",
       "۬", "ۭ", "U+070F", "U+0711", "U+0730", "U+0731", "U+0732", "U+0733",
       "U+0734", "U+0735", "U+0736", "U+0737", "U+0738", "U+0739", "U+073A",
       "U+073B", "U+073C", "U+073D", "U+073E", "U+073F", "U+0740", "U+0741",
       "U+0742", "U+0743", "U+0744", "U+0745", "U+0746", "U+0747", "U+0748",
       "U+0749", "U+074A", "ަ", "ާ", "ި", "ީ", "ު", "ޫ", "ެ", "ޭ", "ޮ", "ޯ",
       "ް", "߫", "߬", "߭", "߮", "߯", "߰", "߱", "߲", "߳", "ߴ", "ߵ", "ߺ", "߽",
       "U+0816", "U+0817", "U+0818", "U+0819", "U+081A", "U+081B", "U+081C",
       "U+081D", "U+081E", "U+081F", "U+0820", "U+0821", "U+0822", "U+0823",
       "U+0824", "U+0825", "U+0826", "U+0827", "U+0828", "U+0829", "U+082A",
       "U+082B", "U+082C", "U+082D", "U+0859", "U+085A", "U+085B", "࢈", "࢐",
       "࢑", "࢘", "࢙", "࢚", "࢛", "࢜", "࢝", "࢞", "࢟", "ࣉ", "࣊", "࣋", "࣌", "࣍",
       "࣎", "࣏", "࣐", "࣑", "࣒", "࣓", "ࣔ", "ࣕ", "ࣖ", "ࣗ", "ࣘ", "ࣙ", "ࣚ", "ࣛ",
       "ࣜ", "ࣝ", "ࣞ", "ࣟ", "࣠", "࣡", "࣢", "ࣣ", "ࣤ", "ࣥ", "ࣦ", "ࣧ", "ࣨ", "ࣩ",
       "࣪", "࣫", "࣬", "࣭", "࣮", "࣯", "ࣰ", "ࣱ", "ࣲ", "ࣳ", "ࣴ", "ࣵ", "ࣶ", "ࣷ",
       "ࣸ", "ࣹ", "ࣺ", "ࣻ", "ࣼ", "ࣽ", "ࣾ", "ࣿ", "U+0900", "U+0901", "U+0902",
       "U+093A", "U+093C", "U+0941", "U+0942", "U+0943", "U+0944", "U+0945",
       "U+0946", "U+0947", "U+0948", "U+094D", "U+0951", "U+0952", "U+0953",
       "U+0954", "U+0955", "U+0956", "U+0957", "U+0962", "U+0963", "U+0971",
       "ঁ", "়", "ু", "ূ", "ৃ", "ৄ", "্", "ৢ", "ৣ", "৾", "U+0A01", "U+0A02",
       "U+0A3C", "U+0A41", "U+0A42", "U+0A47", "U+0A48", "U+0A4B", "U+0A4C",
       "U+0A4D", "U+0A51", "U+0A70", "U+0A71", "U+0A75", "ઁ", "ં", "઼", "ુ",
       "ૂ", "ૃ", "ૄ", "ૅ", "ે", "ૈ", "્", "ૢ", "ૣ", "ૺ", "ૻ", "ૼ", "૽", "૾",
       "૿", "U+0B01", "U+0B3C", "U+0B3F", "U+0B41", "U+0B42", "U+0B43",
       "U+0B44", "U+0B4D", "U+0B55", "U+0B56", "U+0B62", "U+0B63", "ஂ", "ீ",
       "்", "U+0C00", "U+0C04", "U+0C3C", "U+0C3E", "U+0C3F", "U+0C40",
       "U+0C46", "U+0C47", "U+0C48", "U+0C4A", "U+0C4B", "U+0C4C", "U+0C4D",
       "U+0C55", "U+0C56", "U+0C62", "U+0C63", "ಁ", "಼", "ಿ", "ೆ", "ೌ", "್",
       "ೢ", "ೣ", "U+0D00", "U+0D01", "U+0D3B", "U+0D3C", "U+0D41", "U+0D42",
       "U+0D43", "U+0D44", "U+0D4D", "U+0D62", "U+0D63", "ඁ", "්", "ි", "ී",
       "ු", "ූ", "U+0E31", "U+0E34", "U+0E35", "U+0E36", "U+0E37", "U+0E38",
       "U+0E39", "U+0E3A", "U+0E46", "U+0E47", "U+0E48", "U+0E49", "U+0E4A",
       "U+0E4B", "U+0E4C", "U+0E4D", "U+0E4E", "ັ", "ິ", "ີ", "ຶ", "ື", "ຸ",
       "ູ", "຺", "ົ", "ຼ", "ໆ", "່", "້", "໊", "໋", "໌", "ໍ", "U+0F18",
       "U+0F19", "U+0F35", "U+0F37", "U+0F39", "U+0F71", "U+0F72", "U+0F73",
       "U+0F74", "U+0F75", "U+0F76", "U+0F77", "U+0F78", "U+0F79", "U+0F7A",
       "U+0F7B", "U+0F7C", "U+0F7D", "U+0F7E", "ྀ", "ཱྀ", "ྂ", "ྃ", "྄", "྆",
       "྇", "ྍ", "ྎ", "ྏ", "ྐ", "ྑ", "ྒ", "ྒྷ", "ྔ", "ྕ", "ྖ", "ྗ", "ྙ", "ྚ",
       "ྛ", "ྜ", "ྜྷ", "ྞ", "ྟ", "ྠ", "ྡ", "ྡྷ", "ྣ", "ྤ", "ྥ", "ྦ", "ྦྷ", "ྨ",
       "ྩ", "ྪ", "ྫ", "ྫྷ", "ྭ", "ྮ", "ྯ", "ྰ", "ྱ", "ྲ", "ླ", "ྴ", "ྵ", "ྶ",
       "ྷ", "ྸ", "ྐྵ", "ྺ", "ྻ", "ྼ", "࿆", "U+102D", "U+102E", "U+102F",
       "U+1030", "U+1032", "U+1033", "U+1034", "U+1035", "U+1036", "U+1037",
       "U+1039", "U+103A", "U+103D", "U+103E", "U+1058", "U+1059", "U+105E",
       "U+105F", "U+1060", "U+1071", "U+1072", "U+1073", "U+1074", "ႂ", "ႅ",
       "ႆ", "ႍ", "ႝ", "ჼ", "U+135D", "U+135E", "U+135F", "U+1712", "U+1713",
       "U+1714", "U+1732", "U+1733", "U+1752", "U+1753", "U+1772", "U+1773",
       "឴", "឵", "ិ", "ី", "ឹ", "ឺ", "ុ", "ូ", "ួ", "ំ", "៉", "៊", "់", "៌",
       "៍", "៎", "៏", "័", "៑", "្", "៓", "ៗ", "៝", "U+180B", "U+180C",
       "U+180D", "U+180E", "U+180F", "U+1843", "ᢅ", "ᢆ", "ᢩ", "U+1920",
       "U+1921", "U+1922", "U+1927", "U+1928", "U+1932", "U+1939", "U+193A",
       "U+193B", "U+1A17", "U+1A18", "U+1A1B", "U+1A56", "U+1A58", "U+1A59",
       "U+1A5A", "U+1A5B", "U+1A5C", "U+1A5D", "U+1A5E", "U+1A60", "U+1A62",
       "U+1A65", "U+1A66", "U+1A67", "U+1A68", "U+1A69", "U+1A6A", "U+1A6B",
       "U+1A6C", "U+1A73", "U+1A74", "U+1A75", "U+1A76", "U+1A77", "U+1A78",
       "U+1A79", "U+1A7A", "U+1A7B", "U+1A7C", "U+1A7F", "ᪧ", "᪰", "᪱", "᪲",
       "᪳", "᪴", "᪵", "᪶", "᪷", "᪸", "᪹", "᪺", "᪻", "᪼", "᪽", "᪾", "ᪿ", "ᫀ",
       "᫁", "᫂", "᫃", "᫄", "᫅", "᫆", "᫇", "᫈", "᫉", "᫊", "᫋", "ᫌ", "ᫍ", "ᫎ",
       "U+1B00", "U+1B01", "U+1B02", "U+1B03", "U+1B34", "U+1B36", "U+1B37",
       "U+1B38", "U+1B39", "U+1B3A", "U+1B3C", "U+1B42", "U+1B6B", "U+1B6C",
       "U+1B6D", "U+1B6E", "U+1B6F", "U+1B70", "U+1B71", "U+1B72", "U+1B73",
       "ᮀ", "ᮁ", "ᮢ", "ᮣ", "ᮤ", "ᮥ", "ᮨ", "ᮩ", "᮫", "ᮬ", "ᮭ", "᯦", "ᯨ", "ᯩ",
       "ᯭ", "ᯯ", "ᯰ", "ᯱ", "U+1C2C", "U+1C2D", "U+1C2E", "U+1C2F", "U+1C30",
       "U+1C31", "U+1C32", "U+1C33", "U+1C36", "U+1C37", "U+1C78", "U+1C79",
       "U+1C7A", "U+1C7B", "U+1C7C", "U+1C7D", "᳐", "᳑", "᳒", "᳔", "᳕", "᳖",
       "᳗", "᳘", "᳙", "᳚", "᳛", "᳜", "᳝", "᳞", "᳟", "᳠", "᳢", "᳣", "᳤", "᳥",
       "᳦", "᳧", "᳨", "᳭", "᳴", "᳸", "᳹", "U+1D2C", "U+1D2D", "U+1D2E",
       "U+1D2F", "U+1D30", "U+1D31", "U+1D32", "U+1D33", "U+1D34", "U+1D35",
       "U+1D36", "U+1D37", "U+1D38", "U+1D39", "U+1D3A", "U+1D3B", "U+1D3C",
       "U+1D3D", "U+1D3E", "U+1D3F", "U+1D40", "U+1D41", "U+1D42", "U+1D43",
       "U+1D44", "U+1D45", "U+1D46", "U+1D47", "U+1D48", "U+1D49", "U+1D4A",
       "U+1D4B", "U+1D4C", "U+1D4D", "U+1D4E", "U+1D4F", "U+1D50", "U+1D51",
       "U+1D52", "U+1D53", "U+1D54", "U+1D55", "U+1D56", "U+1D57", "U+1D58",
       "U+1D59", "U+1D5A", "U+1D5B", "U+1D5C", "U+1D5D", "U+1D5E", "U+1D5F",
       "U+1D60", "U+1D61", "U+1D62", "U+1D63", "U+1D64", "U+1D65", "U+1D66",
       "U+1D67", "U+1D68", "U+1D69", "U+1D6A", "U+1D78", "ᶛ", "ᶜ", "ᶝ", "ᶞ",
       "ᶟ", "ᶠ", "ᶡ", "ᶢ", "ᶣ", "ᶤ", "ᶥ", "ᶦ", "ᶧ", "ᶨ", "ᶩ", "ᶪ", "ᶫ", "ᶬ",
       "ᶭ", "ᶮ", "ᶯ", "ᶰ", "ᶱ", "ᶲ", "ᶳ", "ᶴ", "ᶵ", "ᶶ", "ᶷ", "ᶸ", "ᶹ", "ᶺ",
       "ᶻ", "ᶼ", "ᶽ", "ᶾ", "ᶿ", "᷀", "᷁", "᷂", "᷃", "᷄", "᷅", "᷆", "᷇", "᷈",
       "᷉", "᷊", "᷋", "᷌", "᷍", "᷎", "᷏", "᷐", "᷑", "᷒", "ᷓ", "ᷔ", "ᷕ", "ᷖ",
       "ᷗ", "ᷘ", "ᷙ", "ᷚ", "ᷛ", "ᷜ", "ᷝ", "ᷞ", "ᷟ", "ᷠ", "ᷡ", "ᷢ", "ᷣ", "ᷤ",
       "ᷥ", "ᷦ", "ᷧ", "ᷨ", "ᷩ", "ᷪ", "ᷫ", "ᷬ", "ᷭ", "ᷮ", "ᷯ", "ᷰ", "ᷱ", "ᷲ",
       "ᷳ", "ᷴ", "᷵", "᷶", "᷷", "᷸", "᷹", "᷺", "᷻", "᷼", "᷽", "᷾", "᷿", "᾽",
       "᾿", "῀", "῁", "῍", "῎", "῏", "῝", "῞", "῟", "῭", "΅", "`", "´", "῾",
       "U+200B", "U+200C", "U+200D", "U+200E", "U+200F", "U+2018", "U+2019",
       "U+2024", "U+2027", "U+202A", "U+202B", "U+202C", "U+202D", "U+202E",
       "U+2060", "U+2061", "U+2062", "U+2063", "U+2064", "U+2066", "U+2067",
       "U+2068", "U+2069", "U+206A", "U+206B", "U+206C", "U+206D", "U+206E",
       "U+206F", "U+2071", "U+207F", "ₐ", "ₑ", "ₒ", "ₓ", "ₔ", "ₕ", "ₖ", "ₗ",
       "ₘ", "ₙ", "ₚ", "ₛ", "ₜ", "⃐", "⃑", "⃒", "⃓", "⃔", "⃕", "⃖", "⃗", "⃘",
       "⃙", "⃚", "⃛", "⃜", "⃝", "⃞", "⃟", "⃠", "⃡", "⃢", "⃣", "⃤", "⃥", "⃦",
       "⃧", "⃨", "⃩", "⃪", "⃫", "⃬", "⃭", "⃮", "⃯", "⃰", "U+2C7C", "U+2C7D",
       "⳯", "⳰", "⳱", "U+2D6F", "U+2D7F", "ⷠ", "ⷡ", "ⷢ", "ⷣ", "ⷤ", "ⷥ", "ⷦ",
       "ⷧ", "ⷨ", "ⷩ", "ⷪ", "ⷫ", "ⷬ", "ⷭ", "ⷮ", "ⷯ", "ⷰ", "ⷱ", "ⷲ", "ⷳ", "ⷴ",
       "ⷵ", "ⷶ", "ⷷ", "ⷸ", "ⷹ", "ⷺ", "ⷻ", "ⷼ", "ⷽ", "ⷾ", "ⷿ", "U+2E2F",
       "U+3005", "U+302A", "U+302B", "U+302C", "U+302D", "U+3031", "U+3032",
       "U+3033", "U+3034", "U+3035", "U+303B", "゙", "゚", "゛", "゜", "ゝ", "ゞ",
       "ー", "ヽ", "ヾ", "U+A015", "ꓸ", "ꓹ", "ꓺ", "ꓻ", "ꓼ", "ꓽ", "U+A60C",
       "U+A66F", "U+A670", "U+A671", "U+A672", "U+A674", "U+A675", "U+A676",
       "U+A677", "U+A678", "U+A679", "U+A67A", "U+A67B", "U+A67C", "U+A67D",
       "U+A67F", "ꚜ", "ꚝ", "ꚞ", "ꚟ", "꛰", "꛱", "U+A700", "U+A701", "U+A702",
       "U+A703", "U+A704", "U+A705", "U+A706", "U+A707", "U+A708", "U+A709",
       "U+A70A", "U+A70B", "U+A70C", "U+A70D", "U+A70E", "U+A70F", "U+A710",
       "U+A711", "U+A712", "U+A713", "U+A714", "U+A715", "U+A716", "U+A717",
       "U+A718", "U+A719", "U+A71A", "U+A71B", "U+A71C", "U+A71D", "U+A71E",
       "U+A71F", "U+A720", "U+A721", "U+A770", "ꞈ", "꞉", "꞊", "ꟲ", "ꟳ", "ꟴ",
       "ꟸ", "ꟹ", "U+A802", "U+A806", "U+A80B", "U+A825", "U+A826", "U+A82C",
       "꣄", "ꣅ", "꣠", "꣡", "꣢", "꣣", "꣤", "꣥", "꣦", "꣧", "꣨", "꣩", "꣪", "꣫",
       "꣬", "꣭", "꣮", "꣯", "꣰", "꣱", "ꣿ", "U+A926", "U+A927", "U+A928",
       "U+A929", "U+A92A", "U+A92B", "U+A92C", "U+A92D", "U+A947", "U+A948",
       "U+A949", "U+A94A", "U+A94B", "U+A94C", "U+A94D", "U+A94E", "U+A94F",
       "U+A950", "U+A951", "ꦀ", "ꦁ", "ꦂ", "꦳", "ꦶ", "ꦷ", "ꦸ", "ꦹ", "ꦼ", "ꦽ",
       "ꧏ", "ꧥ", "ꧦ", "U+AA29", "U+AA2A", "U+AA2B", "U+AA2C", "U+AA2D",
       "U+AA2E", "U+AA31", "U+AA32", "U+AA35", "U+AA36", "U+AA43", "U+AA4C",
       "U+AA70", "U+AA7C", "ꪰ", "ꪲ", "ꪳ", "ꪴ", "ꪷ", "ꪸ", "ꪾ", "꪿", "꫁", "ꫝ",
       "ꫬ", "ꫭ", "ꫳ", "ꫴ", "꫶", "U+AB5B", "U+AB5C", "U+AB5D", "U+AB5E",
       "U+AB5F", "U+AB69", "U+AB6A", "U+AB6B", "ꯥ", "ꯨ", "꯭", "U+FB1E", "﮲",
       "﮳", "﮴", "﮵", "﮶", "﮷", "﮸", "﮹", "﮺", "﮻", "﮼", "﮽", "﮾", "﮿", "﯀",
       "﯁", "﯂", "U+FE00", "U+FE01", "U+FE02", "U+FE03", "U+FE04", "U+FE05",
       "U+FE06", "U+FE07", "U+FE08", "U+FE09", "U+FE0A", "U+FE0B", "U+FE0C",
       "U+FE0D", "U+FE0E", "U+FE0F", "U+FE13", "U+FE20", "U+FE21", "U+FE22",
       "U+FE23", "U+FE24", "U+FE25", "U+FE26", "U+FE27", "U+FE28", "U+FE29",
       "U+FE2A", "U+FE2B", "U+FE2C", "U+FE2D", "U+FE2E", "U+FE2F", "U+FE52",
       "U+FE55", "﻿", "U+FF07", "U+FF0E", "U+FF1A", "U+FF3E", "U+FF40",
       "U+FF70", "ﾞ", "ﾟ", "￣", "￹", "￺", "￻", "U+101FD", "U+102E0",
       "U+10376", "U+10377", "U+10378", "U+10379", "U+1037A", "U+10780",
       "U+10781", "U+10782", "U+10783", "U+10784", "U+10785", "U+10787",
       "U+10788", "U+10789", "U+1078A", "U+1078B", "U+1078C", "U+1078D",
       "U+1078E", "U+1078F", "U+10790", "U+10791", "U+10792", "U+10793",
       "U+10794", "U+10795", "U+10796", "U+10797", "U+10798", "U+10799",
       "U+1079A", "U+1079B", "U+1079C", "U+1079D", "U+1079E", "U+1079F",
       "U+107A0", "U+107A1", "U+107A2", "U+107A3", "U+107A4", "U+107A5",
       "U+107A6", "U+107A7", "U+107A8", "U+107A9", "U+107AA", "U+107AB",
       "U+107AC", "U+107AD", "U+107AE", "U+107AF", "U+107B0", "U+107B2",
       "U+107B3", "U+107B4", "U+107B5", "U+107B6", "U+107B7", "U+107B8",
       "U+107B9", "U+107BA", "U+10A01", "U+10A02", "U+10A03", "U+10A05",
       "U+10A06", "U+10A0C", "U+10A0D", "U+10A0E", "U+10A0F", "U+10A38",
       "U+10A39", "U+10A3A", "U+10A3F", "U+10AE5", "U+10AE6", "U+10D24",
       "U+10D25", "U+10D26", "U+10D27", "U+10EAB", "U+10EAC", "U+10F46",
       "U+10F47", "U+10F48", "U+10F49", "U+10F4A", "U+10F4B", "U+10F4C",
       "U+10F4D", "U+10F4E", "U+10F4F", "U+10F50", "U+10F82", "U+10F83",
       "U+10F84", "U+10F85", "U+11001", "U+11038", "U+11039", "U+1103A",
       "U+1103B", "U+1103C", "U+1103D", "U+1103E", "U+1103F", "U+11040",
       "U+11041", "U+11042", "U+11043", "U+11044", "U+11045", "U+11046",
       "U+11070", "U+11073", "U+11074", "U+1107F", "U+11080", "U+11081",
       "U+110B3", "U+110B4", "U+110B5", "U+110B6", "U+110B9", "U+110BA",
       "U+110BD", "U+110C2", "U+110CD", "U+11100", "U+11101", "U+11102",
       "U+11127", "U+11128", "U+11129", "U+1112A", "U+1112B", "U+1112D",
       "U+1112E", "U+1112F", "U+11130", "U+11131", "U+11132", "U+11133",
       "U+11134", "U+11173", "U+11180", "U+11181", "U+111B6", "U+111B7",
       "U+111B8", "U+111B9", "U+111BA", "U+111BB", "U+111BC", "U+111BD",
       "U+111BE", "U+111C9", "U+111CA", "U+111CB", "U+111CC", "U+111CF",
       "U+1122F", "U+11230", "U+11231", "U+11234", "U+11236", "U+11237",
       "U+1123E", "U+112DF", "U+112E3", "U+112E4", "U+112E5", "U+112E6",
       "U+112E7", "U+112E8", "U+112E9", "U+112EA", "U+11300", "U+11301",
       "U+1133B", "U+1133C", "U+11340", "U+11366", "U+11367", "U+11368",
       "U+11369", "U+1136A", "U+1136B", "U+1136C", "U+11370", "U+11371",
       "U+11372", "U+11373", "U+11374", "U+11438", "U+11439", "U+1143A",
       "U+1143B", "U+1143C", "U+1143D", "U+1143E", "U+1143F", "U+11442",
       "U+11443", "U+11444", "U+11446", "U+1145E", "U+114B3", "U+114B4",
       "U+114B5", "U+114B6", "U+114B7", "U+114B8", "U+114BA", "U+114BF",
       "U+114C0", "U+114C2", "U+114C3", "U+115B2", "U+115B3", "U+115B4",
       "U+115B5", "U+115BC", "U+115BD", "U+115BF", "U+115C0", "U+115DC",
       "U+115DD", "U+11633", "U+11634", "U+11635", "U+11636", "U+11637",
       "U+11638", "U+11639", "U+1163A", "U+1163D", "U+1163F", "U+11640",
       "U+116AB", "U+116AD", "U+116B0", "U+116B1", "U+116B2", "U+116B3",
       "U+116B4", "U+116B5", "U+116B7", "U+1171D", "U+1171E", "U+1171F",
       "U+11722", "U+11723", "U+11724", "U+11725", "U+11727", "U+11728",
       "U+11729", "U+1172A", "U+1172B", "U+1182F", "U+11830", "U+11831",
       "U+11832", "U+11833", "U+11834", "U+11835", "U+11836", "U+11837",
       "U+11839", "U+1183A", "U+1193B", "U+1193C", "U+1193E", "U+11943",
       "U+119D4", "U+119D5", "U+119D6", "U+119D7", "U+119DA", "U+119DB",
       "U+119E0", "U+11A01", "U+11A02", "U+11A03", "U+11A04", "U+11A05",
       "U+11A06", "U+11A07", "U+11A08", "U+11A09", "U+11A0A", "U+11A33",
       "U+11A34", "U+11A35", "U+11A36", "U+11A37", "U+11A38", "U+11A3B",
       "U+11A3C", "U+11A3D", "U+11A3E", "U+11A47", "U+11A51", "U+11A52",
       "U+11A53", "U+11A54", "U+11A55", "U+11A56", "U+11A59", "U+11A5A",
       "U+11A5B", "U+11A8A", "U+11A8B", "U+11A8C", "U+11A8D", "U+11A8E",
       "U+11A8F", "U+11A90", "U+11A91", "U+11A92", "U+11A93", "U+11A94",
       "U+11A95", "U+11A96", "U+11A98", "U+11A99", "U+11C30", "U+11C31",
       "U+11C32", "U+11C33", "U+11C34", "U+11C35", "U+11C36", "U+11C38",
       "U+11C39", "U+11C3A", "U+11C3B", "U+11C3C", "U+11C3D", "U+11C3F",
       "U+11C92", "U+11C93", "U+11C94", "U+11C95", "U+11C96", "U+11C97",
       "U+11C98", "U+11C99", "U+11C9A", "U+11C9B", "U+11C9C", "U+11C9D",
       "U+11C9E", "U+11C9F", "U+11CA0", "U+11CA1", "U+11CA2", "U+11CA3",
       "U+11CA4", "U+11CA5", "U+11CA6", "U+11CA7", "U+11CAA", "U+11CAB",
       "U+11CAC", "U+11CAD", "U+11CAE", "U+11CAF", "U+11CB0", "U+11CB2",
       "U+11CB3", "U+11CB5", "U+11CB6", "U+11D31", "U+11D32", "U+11D33",
       "U+11D34", "U+11D35", "U+11D36", "U+11D3A", "U+11D3C", "U+11D3D",
       "U+11D3F", "U+11D40", "U+11D41", "U+11D42", "U+11D43", "U+11D44",
       "U+11D45", "U+11D47", "U+11D90", "U+11D91", "U+11D95", "U+11D97",
       "U+11EF3", "U+11EF4", "U+13430", "U+13431", "U+13432", "U+13433",
       "U+13434", "U+13435", "U+13436", "U+13437", "U+13438", "U+16AF0",
       "U+16AF1", "U+16AF2", "U+16AF3", "U+16AF4", "U+16B30", "U+16B31",
       "U+16B32", "U+16B33", "U+16B34", "U+16B35", "U+16B36", "U+16B40",
       "U+16B41", "U+16B42", "U+16B43", "U+16F4F", "U+16F8F", "U+16F90",
       "U+16F91", "U+16F92", "U+16F93", "U+16F94", "U+16F95", "U+16F96",
       "U+16F97", "U+16F98", "U+16F99", "U+16F9A", "U+16F9B", "U+16F9C",
       "U+16F9D", "U+16F9E", "U+16F9F", "U+16FE0", "U+16FE1", "U+16FE3",
       "U+16FE4", "U+1AFF0", "U+1AFF1", "U+1AFF2", "U+1AFF3", "U+1AFF5",
       "U+1AFF6", "U+1AFF7", "U+1AFF8", "U+1AFF9", "U+1AFFA", "U+1AFFB",
       "U+1AFFD", "U+1AFFE", "U+1BC9D", "U+1BC9E", "U+1BCA0", "U+1BCA1",
       "U+1BCA2", "U+1BCA3", "U+1CF00", "U+1CF01", "U+1CF02", "U+1CF03",
       "U+1CF04", "U+1CF05", "U+1CF06", "U+1CF07", "U+1CF08", "U+1CF09",
       "U+1CF0A", "U+1CF0B", "U+1CF0C", "U+1CF0D", "U+1CF0E", "U+1CF0F",
       "U+1CF10", "U+1CF11", "U+1CF12", "U+1CF13", "U+1CF14", "U+1CF15",
       "U+1CF16", "U+1CF17", "U+1CF18", "U+1CF19", "U+1CF1A", "U+1CF1B",
       "U+1CF1C", "U+1CF1D", "U+1CF1E", "U+1CF1F", "U+1CF20", "U+1CF21",
       "U+1CF22", "U+1CF23", "U+1CF24", "U+1CF25", "U+1CF26", "U+1CF27",
       "U+1CF28", "U+1CF29", "U+1CF2A", "U+1CF2B", "U+1CF2C", "U+1CF2D",
       "U+1CF30", "U+1CF31", "U+1CF32", "U+1CF33", "U+1CF34", "U+1CF35",
       "U+1CF36", "U+1CF37", "U+1CF38", "U+1CF39", "U+1CF3A", "U+1CF3B",
       "U+1CF3C", "U+1CF3D", "U+1CF3E", "U+1CF3F", "U+1CF40", "U+1CF41",
       "U+1CF42", "U+1CF43", "U+1CF44", "U+1CF45", "U+1CF46", "U+1D167",
       "U+1D168", "U+1D169", "U+1D173", "U+1D174", "U+1D175", "U+1D176",
       "U+1D177", "U+1D178", "U+1D179", "U+1D17A", "U+1D17B", "U+1D17C",
       "U+1D17D", "U+1D17E", "U+1D17F", "U+1D180", "U+1D181", "U+1D182",
       "U+1D185", "U+1D186", "U+1D187", "U+1D188", "U+1D189", "U+1D18A",
       "U+1D18B", "U+1D1AA", "U+1D1AB", "U+1D1AC", "U+1D1AD", "U+1D242",
       "U+1D243", "U+1D244", "U+1DA00", "U+1DA01", "U+1DA02", "U+1DA03",
       "U+1DA04", "U+1DA05", "U+1DA06", "U+1DA07", "U+1DA08", "U+1DA09",
       "U+1DA0A", "U+1DA0B", "U+1DA0C", "U+1DA0D", "U+1DA0E", "U+1DA0F",
       "U+1DA10", "U+1DA11", "U+1DA12", "U+1DA13", "U+1DA14", "U+1DA15",
       "U+1DA16", "U+1DA17", "U+1DA18", "U+1DA19", "U+1DA1A", "U+1DA1B",
       "U+1DA1C", "U+1DA1D", "U+1DA1E", "U+1DA1F", "U+1DA20", "U+1DA21",
       "U+1DA22", "U+1DA23", "U+1DA24", "U+1DA25", "U+1DA26", "U+1DA27",
       "U+1DA28", "U+1DA29", "U+1DA2A", "U+1DA2B", "U+1DA2C", "U+1DA2D",
       "U+1DA2E", "U+1DA2F", "U+1DA30", "U+1DA31", "U+1DA32", "U+1DA33",
       "U+1DA34", "U+1DA35", "U+1DA36", "U+1DA3B", "U+1DA3C", "U+1DA3D",
       "U+1DA3E", "U+1DA3F", "U+1DA40", "U+1DA41", "U+1DA42", "U+1DA43",
       "U+1DA44", "U+1DA45", "U+1DA46", "U+1DA47", "U+1DA48", "U+1DA49",
       "U+1DA4A", "U+1DA4B", "U+1DA4C", "U+1DA4D", "U+1DA4E", "U+1DA4F",
       "U+1DA50", "U+1DA51", "U+1DA52", "U+1DA53", "U+1DA54", "U+1DA55",
       "U+1DA56", "U+1DA57", "U+1DA58", "U+1DA59", "U+1DA5A", "U+1DA5B",
       "U+1DA5C", "U+1DA5D", "U+1DA5E", "U+1DA5F", "U+1DA60", "U+1DA61",
       "U+1DA62", "U+1DA63", "U+1DA64", "U+1DA65", "U+1DA66", "U+1DA67",
       "U+1DA68", "U+1DA69", "U+1DA6A", "U+1DA6B", "U+1DA6C", "U+1DA75",
       "U+1DA84", "U+1DA9B", "U+1DA9C", "U+1DA9D", "U+1DA9E", "U+1DA9F",
       "U+1DAA1", "U+1DAA2", "U+1DAA3", "U+1DAA4", "U+1DAA5", "U+1DAA6",
       "U+1DAA7", "U+1DAA8", "U+1DAA9", "U+1DAAA", "U+1DAAB", "U+1DAAC",
       "U+1DAAD", "U+1DAAE", "U+1DAAF", "U+1E000", "U+1E001", "U+1E002",
       "U+1E003", "U+1E004", "U+1E005", "U+1E006", "U+1E008", "U+1E009",
       "U+1E00A", "U+1E00B", "U+1E00C", "U+1E00D", "U+1E00E", "U+1E00F",
       "U+1E010", "U+1E011", "U+1E012", "U+1E013", "U+1E014", "U+1E015",
       "U+1E016", "U+1E017", "U+1E018", "U+1E01B", "U+1E01C", "U+1E01D",
       "U+1E01E", "U+1E01F", "U+1E020", "U+1E021", "U+1E023", "U+1E024",
       "U+1E026", "U+1E027", "U+1E028", "U+1E029", "U+1E02A", "U+1E130",
       "U+1E131", "U+1E132", "U+1E133", "U+1E134", "U+1E135", "U+1E136",
       "U+1E137", "U+1E138", "U+1E139", "U+1E13A", "U+1E13B", "U+1E13C",
       "U+1E13D", "U+1E2AE", "U+1E2EC", "U+1E2ED", "U+1E2EE", "U+1E2EF",
       "U+1E8D0", "U+1E8D1", "U+1E8D2", "U+1E8D3", "U+1E8D4", "U+1E8D5",
       "U+1E8D6", "U+1E944", "U+1E945", "U+1E946", "U+1E947", "U+1E948",
       "U+1E949", "U+1E94A", "U+1E94B", "U+1F3FB", "U+1F3FC", "U+1F3FD",
       "U+1F3FE", "U+1F3FF", "U+E0001", "U+E0020", "U+E0021", "U+E0022",
       "U+E0023", "U+E0024", "U+E0025", "U+E0026", "U+E0027", "U+E0028",
       "U+E0029", "U+E002A", "U+E002B", "U+E002C", "U+E002D", "U+E002E",
       "U+E002F", "U+E0030", "U+E0031", "U+E0032", "U+E0033", "U+E0034",
       "U+E0035", "U+E0036", "U+E0037", "U+E0038", "U+E0039", "U+E003A",
       "U+E003B", "U+E003C", "U+E003D", "U+E003E", "U+E003F", "U+E0040",
       "U+E0041", "U+E0042", "U+E0043", "U+E0044", "U+E0045", "U+E0046",
       "U+E0047", "U+E0048", "U+E0049", "U+E004A", "U+E004B", "U+E004C",
       "U+E004D", "U+E004E", "U+E004F", "U+E0050", "U+E0051", "U+E0052",
       "U+E0053", "U+E0054", "U+E0055", "U+E0056", "U+E0057", "U+E0058",
       "U+E0059", "U+E005A", "U+E005B", "U+E005C", "U+E005D", "U+E005E",
       "U+E005F", "U+E0060", "U+E0061", "U+E0062", "U+E0063", "U+E0064",
       "U+E0065", "U+E0066", "U+E0067", "U+E0068", "U+E0069", "U+E006A",
       "U+E006B", "U+E006C", "U+E006D", "U+E006E", "U+E006F", "U+E0070",
       "U+E0071", "U+E0072", "U+E0073", "U+E0074", "U+E0075", "U+E0076",
       "U+E0077", "U+E0078", "U+E0079", "U+E007A", "U+E007B", "U+E007C",
       "U+E007D", "U+E007E", "U+E007F", "U+E0100", "U+E0101", "U+E0102",
       "U+E0103", "U+E0104", "U+E0105", "U+E0106", "U+E0107", "U+E0108",
       "U+E0109", "U+E010A", "U+E010B", "U+E010C", "U+E010D", "U+E010E",
       "U+E010F", "U+E0110", "U+E0111", "U+E0112", "U+E0113", "U+E0114",
       "U+E0115", "U+E0116", "U+E0117", "U+E0118", "U+E0119", "U+E011A",
       "U+E011B", "U+E011C", "U+E011D", "U+E011E", "U+E011F", "U+E0120",
       "U+E0121", "U+E0122", "U+E0123", "U+E0124", "U+E0125", "U+E0126",
       "U+E0127", "U+E0128", "U+E0129", "U+E012A", "U+E012B", "U+E012C",
       "U+E012D", "U+E012E", "U+E012F", "U+E0130", "U+E0131", "U+E0132",
       "U+E0133", "U+E0134", "U+E0135", "U+E0136", "U+E0137", "U+E0138",
       "U+E0139", "U+E013A", "U+E013B", "U+E013C", "U+E013D", "U+E013E",
       "U+E013F", "U+E0140", "U+E0141", "U+E0142", "U+E0143", "U+E0144",
       "U+E0145", "U+E0146", "U+E0147", "U+E0148", "U+E0149", "U+E014A",
       "U+E014B", "U+E014C", "U+E014D", "U+E014E", "U+E014F", "U+E0150",
       "U+E0151", "U+E0152", "U+E0153", "U+E0154", "U+E0155", "U+E0156",
       "U+E0157", "U+E0158", "U+E0159", "U+E015A", "U+E015B", "U+E015C",
       "U+E015D", "U+E015E", "U+E015F", "U+E0160", "U+E0161", "U+E0162",
       "U+E0163", "U+E0164", "U+E0165", "U+E0166", "U+E0167", "U+E0168",
       "U+E0169", "U+E016A", "U+E016B", "U+E016C", "U+E016D", "U+E016E",
       "U+E016F", "U+E0170", "U+E0171", "U+E0172", "U+E0173", "U+E0174",
       "U+E0175", "U+E0176", "U+E0177", "U+E0178", "U+E0179", "U+E017A",
       "U+E017B", "U+E017C", "U+E017D", "U+E017E", "U+E017F", "U+E0180",
       "U+E0181", "U+E0182", "U+E0183", "U+E0184", "U+E0185", "U+E0186",
       "U+E0187", "U+E0188", "U+E0189", "U+E018A", "U+E018B", "U+E018C",
       "U+E018D", "U+E018E", "U+E018F", "U+E0190", "U+E0191", "U+E0192",
       "U+E0193", "U+E0194", "U+E0195", "U+E0196", "U+E0197", "U+E0198",
       "U+E0199", "U+E019A", "U+E019B", "U+E019C", "U+E019D", "U+E019E",
       "U+E019F", "U+E01A0", "U+E01A1", "U+E01A2", "U+E01A3", "U+E01A4",
       "U+E01A5", "U+E01A6", "U+E01A7", "U+E01A8", "U+E01A9", "U+E01AA",
       "U+E01AB", "U+E01AC", "U+E01AD", "U+E01AE", "U+E01AF", "U+E01B0",
       "U+E01B1", "U+E01B2", "U+E01B3", "U+E01B4", "U+E01B5", "U+E01B6",
       "U+E01B7", "U+E01B8", "U+E01B9", "U+E01BA", "U+E01BB", "U+E01BC",
       "U+E01BD", "U+E01BE", "U+E01BF", "U+E01C0", "U+E01C1", "U+E01C2",
       "U+E01C3", "U+E01C4", "U+E01C5", "U+E01C6", "U+E01C7", "U+E01C8",
       "U+E01C9", "U+E01CA", "U+E01CB", "U+E01CC", "U+E01CD", "U+E01CE",
       "U+E01CF", "U+E01D0", "U+E01D1", "U+E01D2", "U+E01D3", "U+E01D4",
       "U+E01D5", "U+E01D6", "U+E01D7", "U+E01D8", "U+E01D9", "U+E01DA",
       "U+E01DB", "U+E01DC", "U+E01DD", "U+E01DE", "U+E01DF", "U+E01E0",
       "U+E01E1", "U+E01E2", "U+E01E3", "U+E01E4", "U+E01E5", "U+E01E6",
       "U+E01E7", "U+E01E8", "U+E01E9", "U+E01EA", "U+E01EB", "U+E01EC",
       "U+E01ED", "U+E01EE", "U+E01EF"
    }

\* The characters with the property Cased.
Cased ==
    {
       "A", "B", "C", "D", "E", "F", "G", "H", "I", "J", "K", "L", "M", "N",
       "O", "P", "Q", "R", "S", "T", "U", "V", "W", "X", "Y", "Z", "a", "b",
       "c", "d", "e", "f", "g", "h", "i", "j", "k", "l", "m", "n", "o", "p",
       "q", "r", "s", "t", "u", "v", "w", "x", "y", "z", "ª", "µ", "º", "À",
       "Á", "Â", "Ã", "Ä", "Å", "Æ", "Ç", "È", "É", "Ê", "Ë", "Ì", "Í", "Î",
       "Ï", "Ð", "Ñ", "Ò", "Ó", "Ô", "Õ", "Ö", "Ø", "Ù", "Ú", "Û", "Ü", "Ý",
       "Þ", "ß", "à", "á", "â", "ã", "ä", "å", "æ", "ç", "è", "é", "ê", "ë",
       "ì", "í", "î", "ï", "ð", "ñ", "ò", "ó", "ô", "õ", "ö", "ø", "ù", "ú",
       "û", "ü", "ý", "þ", "ÿ", "U+0100", "U+0101", "U+0102", "U+0103",
       "U+0104", "U+0105", "U+0106", "U+0107", "U+0108", "U+0109", "U+010A",
       "U+010B", "U+010C", "U+010D", "U+010E", "U+010F", "U+0110", "U+0111",
       "U+0112", "U+0113", "U+0114", "U+0115", "U+0116", "U+0117", "U+0118",
       "U+0119", "U+011A", "U+011B", "U+011C", "U+011D", "U+011E", "U+011F",
       "U+0120", "U+0121", "U+0122", "U+0123", "U+0124", "U+0125", "U+0126",
       "U+0127", "U+0128", "U+0129", "U+012A", "U+012B", "U+012C", "U+012D",
       "U+012E", "U+012F", "U+0130", "U+0131", "U+0132", "U+0133", "U+0134",
       "U+0135", "U+0136", "U+0137", "U+0138", "U+0139", "U+013A", "U+013B",
       "U+013C", "U+013D", "U+013E", "U+013F", "U+0140", "U+0141", "U+0142",
       "U+0143", "U+0144", "U+0145", "U+0146", "U+0147", "U+0148", "U+0149",
       "U+014A", "U+014B", "U+014C", "U+014D", "U+014E", "U+014F", "U+0150",
       "U+0151", "U+0152", "U+0153", "U+0154", "U+0155", "U+0156", "U+0157",
       "U+0158", "U+0159", "U+015A", "U+015B", "U+015C", "U+015D", "U+015E",
       "U+015F", "U+0160", "U+0161", "U+0162", "U+0163", "U+0164", "U+0165",
       "U+0166", "U+0167", "U+0168", "U+0169", "U+016A", "U+016B", "U+016C",
       "U+016D", "U+016E", "U+016F", "U+0170", "U+0171", "U+0172", "U+0173",
       "U+0174", "U+0175", "U+0176", "U+0177", "U+0178", "U+0179", "U+017A",
       "U+017B", "U+017C", "U+017D", "U+017E", "U+017F", "ƀ", "Ɓ", "Ƃ", "ƃ",
       "Ƅ", "ƅ", "Ɔ", "Ƈ", "ƈ", "Ɖ", "Ɗ", "Ƌ", "ƌ", "ƍ", "Ǝ", "Ə", "Ɛ", "Ƒ",
       "ƒ", "Ɠ", "Ɣ", "ƕ", "Ɩ", "Ɨ", "Ƙ", "ƙ", "ƚ", "ƛ", "Ɯ", "Ɲ", "ƞ", "Ɵ",
       "Ơ", "ơ", "Ƣ", "ƣ", "Ƥ", "ƥ", "Ʀ", "Ƨ", "ƨ", "Ʃ", "ƪ", "ƫ", "Ƭ", "ƭ",
       "Ʈ", "Ư", "ư", "Ʊ", "Ʋ", "Ƴ", "ƴ", "Ƶ", "ƶ", "Ʒ", "Ƹ", "ƹ", "ƺ", "Ƽ",
       "ƽ", "ƾ", "ƿ", "Ǆ", "ǅ", "ǆ", "Ǉ", "ǈ", "ǉ", "Ǌ", "ǋ", "ǌ", "Ǎ", "ǎ",
       "Ǐ", "ǐ", "Ǒ", "ǒ", "Ǔ", "ǔ", "Ǖ", "ǖ", "Ǘ", "ǘ", "Ǚ", "ǚ", "Ǜ", "ǜ",
       "ǝ", "Ǟ", "ǟ", "Ǡ", "ǡ", "Ǣ", "ǣ", "Ǥ", "ǥ", "Ǧ", "ǧ", "Ǩ", "ǩ", "Ǫ",
       "ǫ", "Ǭ", "ǭ", "Ǯ", "ǯ", "ǰ", "Ǳ", "ǲ", "ǳ", "Ǵ", "ǵ", "Ƕ", "Ƿ", "Ǹ",
       "ǹ", "Ǻ", "ǻ", "Ǽ", "ǽ", "Ǿ", "ǿ", "U+0200", "U+0201", "U+0202",
       "U+0203", "U+0204", "U+0205", "U+0206", "U+0207", "U+0208", "U+0209",
       "U+020A", "U+020B", "U+020C", "U+020D", "U+020E", "U+020F", "U+0210",
       "U+0211", "U+0212", "U+0213", "U+0214", "U+0215", "U+0216", "U+0217",
       "U+0218", "U+0219", "U+021A", "U+021B", "U+021C", "U+021D", "U+021E",
       "U+021F", "U+0220", "U+0221", "U+0222", "U+0223", "U+0224", "U+0225",
       "U+0226", "U+0227", "U+0228", "U+0229", "U+022A", "U+022B", "U+022C",
       "U+022D", "U+022E", "U+022F", "U+0230", "U+0231", "U+0232", "U+0233",
       "U+0234", "U+0235", "U+0236", "U+0237", "U+0238", "U+0239", "U+023A",
       "U+023B", "U+023C", "U+023D", "U+023E", "U+023F", "U+0240", "U+0241",
       "U+0242", "U+0243", "U+0244", "U+0245", "U+0246", "U+0247", "U+0248",
       "U+0249", "U+024A", "U+024B", "U+024C", "U+024D", "U+024E", "U+024F",
       "U+0250", "U+0251", "U+0252", "U+0253", "U+0254", "U+0255", "U+0256",
       "U+0257", "U+0258", "U+0259", "U+025A", "U+025B", "U+025C", "U+025D",
       "U+025E", "U+025F", "U+0260", "U+0261", "U+0262", "U+0263", "U+0264",
       "U+0265", "U+0266", "U+0267", "U+0268", "U+0269", "U+026A", "U+026B",
       "U+026C", "U+026D", "U+026E", "U+026F", "U+0270", "U+0271", "U+0272",
       "U+0273", "U+0274", "U+0275", "U+0276", "U+0277", "U+0278", "U+0279",
       "U+027A", "U+027B", "U+027C", "U+027D", "U+027E", "U+027F", "ʀ", "ʁ",
       "ʂ", "ʃ", "ʄ", "ʅ", "ʆ", "ʇ", "ʈ", "ʉ", "ʊ", "ʋ", "ʌ", "ʍ", "ʎ", "ʏ",
       "ʐ", "ʑ", "ʒ", "ʓ", "ʕ", "ʖ", "ʗ", "ʘ", "ʙ", "ʚ", "ʛ", "ʜ", "ʝ", "ʞ",
       "ʟ", "ʠ", "ʡ", "ʢ", "ʣ", "ʤ", "ʥ", "ʦ", "ʧ", "ʨ", "ʩ", "ʪ", "ʫ", "ʬ",
       "ʭ", "ʮ", "ʯ", "ʰ", "ʱ", "ʲ", "ʳ", "ʴ", "ʵ", "ʶ", "ʷ", "ʸ", "ˀ", "ˁ",
       "ˠ", "ˡ", "ˢ", "ˣ", "ˤ", "U+0345", "U+0370", "U+0371", "U+0372",
       "U+0373", "U+0376", "U+0377", "U+037A", "U+037B", "U+037C", "U+037D",
       "U+037F", "Ά", "Έ", "Ή", "Ί", "Ό", "Ύ", "Ώ", "ΐ", "Α", "Β", "Γ", "Δ",
       "Ε", "Ζ", "Η", "Θ", "Ι", "Κ", "Λ", "Μ", "Ν", "Ξ", "Ο", "Π", "Ρ", "Σ",
       "Τ", "Υ", "Φ", "Χ", "Ψ", "Ω", "Ϊ", "Ϋ", "ά", "έ", "ή", "ί", "ΰ", "α",
       "β", "γ", "δ", "ε", "ζ", "η", "θ", "ι", "κ", "λ", "μ", "ν", "ξ", "ο",
       "π", "ρ", "ς", "σ", "τ", "υ", "φ", "χ", "ψ", "ω", "ϊ", "ϋ", "ό", "ύ",
       "ώ", "Ϗ", "ϐ", "ϑ", "ϒ", "ϓ", "ϔ", "ϕ", "ϖ", "ϗ", "Ϙ", "ϙ", "Ϛ", "ϛ",
       "Ϝ", "ϝ", "Ϟ", "ϟ", "Ϡ", "ϡ", "Ϣ", "ϣ", "Ϥ", "ϥ", "Ϧ", "ϧ", "Ϩ", "ϩ",
       "Ϫ", "ϫ", "Ϭ", "ϭ", "Ϯ", "ϯ", "ϰ", "ϱ", "ϲ", "ϳ", "ϴ", "ϵ", "Ϸ", "ϸ",
       "Ϲ", "Ϻ", "ϻ", "ϼ", "Ͻ", "Ͼ", "Ͽ", "U+0400", "U+0401", "U+0402",
       "U+0403", "U+0404", "U+0405", "U+0406", "U+0407", "U+0408", "U+0409",
       "U+040A", "U+040B", "U+040C", "U+040D", "U+040E", "U+040F", "U+0410",
       "U+0411", "U+0412", "U+0413", "U+0414", "U+0415", "U+0416", "U+0417",
       "U+0418", "U+0419", "U+041A", "U+041B", "U+041C", "U+041D", "U+041E",
       "U+041F", "U+0420", "U+0421", "U+0422", "U+0423", "U+0424", "U+0425",
       "U+0426", "U+0427", "U+0428", "U+0429", "U+042A", "U+042B", "U+042C",
       "U+042D", "U+042E", "U+042F", "U+0430", "U+0431", "U+0432", "U+0433",
       "U+0434", "U+0435", "U+0436", "U+0437", "U+0438", "U+0439", "U+043A",
       "U+043B", "U+043C", "U+043D", "U+043E", "U+043F", "U+0440", "U+0441",
       "U+0442", "U+0443", "U+0444", "U+0445", "U+0446", "U+0447", "U+0448",
       "U+0449", "U+044A", "U+044B", "U+044C", "U+044D", "U+044E", "U+044F",
       "U+0450", "U+0451", "U+0452", "U+0453", "U+0454", "U+0455", "U+0456",
       "U+0457", "U+0458", "U+0459", "U+045A", "U+045B", "U+045C", "U+045D",
       "U+045E", "U+045F", "U+0460", "U+0461", "U+0462", "U+0463", "U+0464",
       "U+0465", "U+0466", "U+0467", "U+0468", "U+0469", "U+046A", "U+046B",
       "U+046C", "U+046D", "U+046E", "U+046F", "U+0470", "U+0471", "U+0472",
       "U+0473", "U+0474", "U+0475", "U+0476", "U+0477", "U+0478", "U+0479",
       "U+047A", "U+047B", "U+047C", "U+047D", "U+047E", "U+047F", "Ҁ", "ҁ",
       "Ҋ", "ҋ", "Ҍ", "ҍ", "Ҏ", "ҏ", "Ґ", "ґ", "Ғ", "ғ", "Ҕ", "ҕ", "Җ", "җ",
       "Ҙ", "ҙ", "Қ", "қ", "Ҝ", "ҝ", "Ҟ", "ҟ", "Ҡ", "ҡ", "Ң", "ң", "Ҥ", "ҥ",
       "Ҧ", "ҧ", "Ҩ", "ҩ", "Ҫ", "ҫ", "Ҭ", "ҭ", "Ү", "ү", "Ұ", "ұ", "Ҳ", "ҳ",
       "Ҵ", "ҵ", "Ҷ", "ҷ", "Ҹ", "ҹ", "Һ", "һ", "Ҽ", "ҽ", "Ҿ", "ҿ", "Ӏ", "Ӂ",
       "ӂ", "Ӄ", "ӄ", "Ӆ", "ӆ", "Ӈ", "ӈ", "Ӊ", "ӊ", "Ӌ", "ӌ", "Ӎ", "ӎ", "ӏ",
       "Ӑ", "ӑ", "Ӓ", "ӓ", "Ӕ", "ӕ", "Ӗ", "ӗ", "Ә", "ә", "Ӛ", "ӛ", "Ӝ", "ӝ",
       "Ӟ", "ӟ", "Ӡ", "ӡ", "Ӣ", "ӣ", "Ӥ", "ӥ", "Ӧ", "ӧ", "Ө", "ө", "Ӫ", "ӫ",
       "Ӭ", "ӭ", "Ӯ", "ӯ", "Ӱ", "ӱ", "Ӳ", "ӳ", "Ӵ", "ӵ", "Ӷ", "ӷ", "Ӹ", "ӹ",
       "Ӻ", "ӻ", "Ӽ", "ӽ", "Ӿ", "ӿ", "U+0500", "U+0501", "U+0502", "U+0503",
       "U+0504", "U+0505", "U+0506", "U+0507", "U+0508", "U+0509", "U+050A",
       "U+050B", "U+050C", "U+050D", "U+050E", "U+050F", "U+0510", "U+0511",
       "U+0512", "U+0513", "U+0514", "U+0515", "U+0516", "U+0517", "U+0518",
       "U+0519", "U+051A", "U+051B", "U+051C", "U+051D", "U+051E", "U+051F",
       "U+0520", "U+0521", "U+0522", "U+0523", "U+0524", "U+0525", "U+0526",
       "U+0527", "U+0528", "U+0529", "U+052A", "U+052B", "U+052C", "U+052D",
       "U+052E", "U+052F", "U+0531", "U+0532", "U+0533", "U+0534", "U+0535",
       "U+0536", "U+0537", "U+0538", "U+0539", "U+053A", "U+053B", "U+053C",
       "U+053D", "U+053E", "U+053F", "U+0540", "U+0541", "U+0542", "U+0543",
       "U+0544", "U+0545", "U+0546", "U+0547", "U+0548", "U+0549", "U+054A",
       "U+054B", "U+054C", "U+054D", "U+054E", "U+054F", "U+0550", "U+0551",
       "U+0552", "U+0553", "U+0554", "U+0555", "U+0556", "U+0560", "U+0561",
       "U+0562", "U+0563", "U+0564", "U+0565", "U+0566", "U+0567", "U+0568",
       "U+0569", "U+056A", "U+056B", "U+056C", "U+056D", "U+056E", "U+056F",
       "U+0570", "U+0571", "U+0572", "U+0573", "U+0574", "U+0575", "U+0576",
       "U+0577", "U+0578", "U+0579", "U+057A", "U+057B", "U+057C", "U+057D",
       "U+057E", "U+057F", "ր", "ց", "ւ", "փ", "ք", "օ", "ֆ", "և", "ֈ", "Ⴀ",
       "Ⴁ", "Ⴂ", "Ⴃ", "Ⴄ", "Ⴅ", "Ⴆ", "Ⴇ", "Ⴈ", "Ⴉ", "Ⴊ", "Ⴋ", "Ⴌ", "Ⴍ", "Ⴎ",
       "Ⴏ", "Ⴐ", "Ⴑ", "Ⴒ", "Ⴓ", "Ⴔ", "Ⴕ", "Ⴖ", "Ⴗ", "Ⴘ", "Ⴙ", "Ⴚ", "Ⴛ", "Ⴜ",
       "Ⴝ", "Ⴞ", "Ⴟ", "Ⴠ", "Ⴡ", "Ⴢ", "Ⴣ", "Ⴤ", "Ⴥ", "Ⴧ", "Ⴭ", "ა", "ბ", "გ",
       "დ", "ე", "ვ", "ზ", "თ", "ი", "კ", "ლ", "მ", "ნ", "ო", "პ", "ჟ", "რ",
       "ს", "ტ", "უ", "ფ", "ქ", "ღ", "ყ", "შ", "ჩ", "ც", "ძ", "წ", "ჭ", "ხ",
       "ჯ", "ჰ", "ჱ", "ჲ", "ჳ", "ჴ", "ჵ", "ჶ", "ჷ", "ჸ", "ჹ", "ჺ", "ჽ", "ჾ",
       "ჿ", "Ꭰ", "Ꭱ", "Ꭲ", "Ꭳ", "Ꭴ", "Ꭵ", "Ꭶ", "Ꭷ", "Ꭸ", "Ꭹ", "Ꭺ", "Ꭻ", "Ꭼ",
       "Ꭽ", "Ꭾ", "Ꭿ", "Ꮀ", "Ꮁ", "Ꮂ", "Ꮃ", "Ꮄ", "Ꮅ", "Ꮆ", "Ꮇ", "Ꮈ", "Ꮉ", "Ꮊ",
       "Ꮋ", "Ꮌ", "Ꮍ", "Ꮎ", "Ꮏ", "Ꮐ", "Ꮑ", "Ꮒ", "Ꮓ", "Ꮔ", "Ꮕ", "Ꮖ", "Ꮗ", "Ꮘ",
       "Ꮙ", "Ꮚ", "Ꮛ", "Ꮜ", "Ꮝ", "Ꮞ", "Ꮟ", "Ꮠ", "Ꮡ", "Ꮢ", "Ꮣ", "Ꮤ", "Ꮥ", "Ꮦ",
       "Ꮧ", "Ꮨ", "Ꮩ", "Ꮪ", "Ꮫ", "Ꮬ", "Ꮭ", "Ꮮ", "Ꮯ", "Ꮰ", "Ꮱ", "Ꮲ", "Ꮳ", "Ꮴ",
       "Ꮵ", "Ꮶ", "Ꮷ", "Ꮸ", "Ꮹ", "Ꮺ", "Ꮻ", "Ꮼ", "Ꮽ", "Ꮾ", "Ꮿ", "Ᏸ", "Ᏹ", "Ᏺ",
       "Ᏻ", "Ᏼ", "Ᏽ", "ᏸ", "ᏹ", "ᏺ", "ᏻ", "ᏼ", "ᏽ", "ᲀ", "ᲁ", "ᲂ", "ᲃ", "ᲄ",
       "ᲅ", "ᲆ", "ᲇ", "ᲈ", "Ა", "Ბ", "Გ", "Დ", "Ე", "Ვ", "Ზ", "Თ", "Ი", "Კ",
       "Ლ", "Მ", "Ნ", "Ო", "Პ", "Ჟ", "Რ", "Ს", "Ტ", "Უ", "Ფ", "Ქ", "Ღ", "Ყ",
       "Შ", "Ჩ", "Ც", "Ძ", "Წ", "Ჭ", "Ხ", "Ჯ", "Ჰ", "Ჱ", "Ჲ", "Ჳ", "Ჴ", "Ჵ",
       "Ჶ", "Ჷ", "Ჸ", "Ჹ", "Ჺ", "Ჽ", "Ჾ", "Ჿ", "U+1D00", "U+1D01", "U+1D02",
       "U+1D03", "U+1D04", "U+1D05", "U+1D06", "U+1D07", "U+1D08", "U+1D09",
       "U+1D0A", "U+1D0B", "U+1D0C", "U+1D0D", "U+1D0E", "U+1D0F", "U+1D10",
       "U+1D11", "U+1D12", "U+1D13", "U+1D14", "U+1D15", "U+1D16", "U+1D17",
       "U+1D18", "U+1D19", "U+1D1A", "U+1D1B", "U+1D1C", "U+1D1D", "U+1D1E",
       "U+1D1F", "U+1D20", "U+1D21", "U+1D22", "U+1D23", "U+1D24", "U+1D25",
       "U+1D26", "U+1D27", "U+1D28", "U+1D29", "U+1D2A", "U+1D2B", "U+1D2C",
       "U+1D2D", "U+1D2E", "U+1D2F", "U+1D30", "U+1D31", "U+1D32", "U+1D33",
       "U+1D34", "U+1D35", "U+1D36", "U+1D37", "U+1D38", "U+1D39", "U+1D3A",
       "U+1D3B", "U+1D3C", "U+1D3D", "U+1D3E", "U+1D3F", "U+1D40", "U+1D41",
       "U+1D42", "U+1D43", "U+1D44", "U+1D45", "U+1D46", "U+1D47", "U+1D48",
       "U+1D49", "U+1D4A", "U+1D4B", "U+1D4C", "U+1D4D", "U+1D4E", "U+1D4F",
       "U+1D50", "U+1D51", "U+1D52", "U+1D53", "U+1D54", "U+1D55", "U+1D56",
       "U+1D57", "U+1D58", "U+1D59", "U+1D5A", "U+1D5B", "U+1D5C", "U+1D5D",
       "U+1D5E", "U+1D5F", "U+1D60", "U+1D61", "U+1D62", "U+1D63", "U+1D64",
       "U+1D65", "U+1D66", "U+1D67", "U+1D68", "U+1D69", "U+1D6A", "U+1D6B",
       "U+1D6C", "U+1D6D", "U+1D6E", "U+1D6F", "U+1D70", "U+1D71", "U+1D72",
       "U+1D73", "U+1D74", "U+1D75", "U+1D76", "U+1D77", "U+1D78", "U+1D79",
       "U+1D7A", "U+1D7B", "U+1D7C", "U+1D7D", "U+1D7E", "U+1D7F", "ᶀ", "ᶁ",
       "ᶂ", "ᶃ", "ᶄ", "ᶅ", "ᶆ", "ᶇ", "ᶈ", "ᶉ", "ᶊ", "ᶋ", "ᶌ", "ᶍ", "ᶎ", "ᶏ",
       "ᶐ", "ᶑ", "ᶒ", "ᶓ", "ᶔ", "ᶕ", "ᶖ", "ᶗ", "ᶘ", "ᶙ", "ᶚ", "ᶛ", "ᶜ", "ᶝ",
       "ᶞ", "ᶟ", "ᶠ", "ᶡ", "ᶢ", "ᶣ", "ᶤ", "ᶥ", "ᶦ", "ᶧ", "ᶨ", "ᶩ", "ᶪ", "ᶫ",
       "ᶬ", "ᶭ", "ᶮ", "ᶯ", "ᶰ", "ᶱ", "ᶲ", "ᶳ", "ᶴ", "ᶵ", "ᶶ", "ᶷ", "ᶸ", "ᶹ",
       "ᶺ", "ᶻ", "ᶼ", "ᶽ", "ᶾ", "ᶿ", "U+1E00", "U+1E01", "U+1E02", "U+1E03",
       "U+1E04", "U+1E05", "U+1E06", "U+1E07", "U+1E08", "U+1E09", "U+1E0A",
       "U+1E0B", "U+1E0C", "U+1E0D", "U+1E0E", "U+1E0F", "U+1E10", "U+1E11",
       "U+1E12", "U+1E13", "U+1E14", "U+1E15", "U+1E16", "U+1E17", "U+1E18",
       "U+1E19", "U+1E1A", "U+1E1B", "U+1E1C", "U+1E1D", "U+1E1E", "U+1E1F",
       "U+1E20", "U+1E21", "U+1E22", "U+1E23", "U+1E24", "U+1E25", "U+1E26",
       "U+1E27", "U+1E28", "U+1E29", "U+1E2A", "U+1E2B", "U+1E2C", "U+1E2D",
       "U+1E2E", "U+1E2F", "U+1E30", "U+1E31", "U+1E32", "U+1E33", "U+1E34",
       "U+1E35", "U+1E36", "U+1E37", "U+1E38", "U+1E39", "U+1E3A", "U+1E3B",
       "U+1E3C", "U+1E3D", "U+1E3E", "U+1E3F", "U+1E40", "U+1E41", "U+1E42",
       "U+1E43", "U+1E44", "U+1E45", "U+1E46", "U+1E47", "U+1E48", "U+1E49",
       "U+1E4A", "U+1E4B", "U+1E4C", "U+1E4D", "U+1E4E", "U+1E4F", "U+1E50",
       "U+1E51", "U+1E52", "U+1E53", "U+1E54", "U+1E55", "U+1E56", "U+1E57",
       "U+1E58", "U+1E59", "U+1E5A", "U+1E5B", "U+1E5C", "U+1E5D", "U+1E5E",
       "U+1E5F", "U+1E60", "U+1E61", "U+1E62", "U+1E63", "U+1E64", "U+1E65",
       "U+1E66", "U+1E67", "U+1E68", "U+1E69", "U+1E6A", "U+1E6B", "U+1E6C",
       "U+1E6D", "U+1E6E", "U+1E6F", "U+1E70", "U+1E71", "U+1E72", "U+1E73",
       "U+1E74", "U+1E75", "U+1E76", "U+1E77", "U+1E78", "U+1E79", "U+1E7A",
       "U+1E7B", "U+1E7C", "U+1E7D", "U+1E7E", "U+1E7F", "Ẁ", "ẁ", "Ẃ", "ẃ",
       "Ẅ", "ẅ", "Ẇ", "ẇ", "Ẉ", "ẉ", "Ẋ", "ẋ", "Ẍ", "ẍ", "Ẏ", "ẏ", "Ẑ", "ẑ",
       "Ẓ", "ẓ", "Ẕ", "ẕ", "ẖ", "ẗ", "ẘ", "ẙ", "ẚ", "ẛ", "ẜ", "ẝ", "ẞ", "ẟ",
       "Ạ", "ạ", "Ả", "ả", "Ấ", "ấ", "Ầ", "ầ", "Ẩ", "ẩ", "Ẫ", "ẫ", "Ậ", "ậ",
       "Ắ", "ắ", "Ằ", "ằ", "Ẳ", "ẳ", "Ẵ", "ẵ", "Ặ", "ặ", "Ẹ", "ẹ", "Ẻ", "ẻ",
       "Ẽ", "ẽ", "Ế", "ế", "Ề", "ề", "Ể", "ể", "Ễ", "ễ", "Ệ", "ệ", "Ỉ", "ỉ",
       "Ị", "ị", "Ọ", "ọ", "Ỏ", "ỏ", "Ố", "ố", "Ồ", "ồ", "Ổ", "ổ", "Ỗ", "ỗ",
       "Ộ", "ộ", "Ớ", "ớ", "Ờ", "ờ", "Ở", "ở", "Ỡ", "ỡ", "Ợ", "ợ", "Ụ", "ụ",
       "Ủ", "ủ", "Ứ", "ứ", "Ừ", "ừ", "Ử", "ử", "Ữ", "ữ", "Ự", "ự", "Ỳ", "ỳ",
       "Ỵ", "ỵ", "Ỷ", "ỷ", "Ỹ", "ỹ", "Ỻ", "ỻ", "Ỽ", "ỽ", "Ỿ", "ỿ", "U+1F00",
       "U+1F01", "U+1F02", "U+1F03", "U+1F04", "U+1F05", "U+1F06", "U+1F07",
       "U+1F08", "U+1F09", "U+1F0A", "U+1F0B", "U+1F0C", "U+1F0D", "U+1F0E",
       "U+1F0F", "U+1F10", "U+1F11", "U+1F12", "U+1F13", "U+1F14", "U+1F15",
       "U+1F18", "U+1F19", "U+1F1A", "U+1F1B", "U+1F1C", "U+1F1D", "U+1F20",
       "U+1F21", "U+1F22", "U+1F23", "U+1F24", "U+1F25", "U+1F26", "U+1F27",
       "U+1F28", "U+1F29", "U+1F2A", "U+1F2B", "U+1F2C", "U+1F2D", "U+1F2E",
       "U+1F2F", "U+1F30", "U+1F31", "U+1F32", "U+1F33", "U+1F34", "U+1F35",
       "U+1F36", "U+1F37", "U+1F38", "U+1F39", "U+1F3A", "U+1F3B", "U+1F3C",
       "U+1F3D", "U+1F3E", "U+1F3F", "U+1F40", "U+1F41", "U+1F42", "U+1F43",
       "U+1F44", "U+1F45", "U+1F48", "U+1F49", "U+1F4A", "U+1F4B", "U+1F4C",
       "U+1F4D", "U+1F50", "U+1F51", "U+1F52", "U+1F53", "U+1F54", "U+1F55",
       "U+1F56", "U+1F57", "U+1F59", "U+1F5B", "U+1F5D", "U+1F5F", "U+1F60",
       "U+1F61", "U+1F62", "U+1F63", "U+1F64", "U+1F65", "U+1F66", "U+1F67",
       "U+1F68", "U+1F69", "U+1F6A", "U+1F6B", "U+1F6C", "U+1F6D", "U+1F6E",
       "U+1F6F", "U+1F70", "U+1F71", "U+1F72", "U+1F73", "U+1F74", "U+1F75",
       "U+1F76", "U+1F77", "U+1F78", "U+1F79", "U+1F7A", "U+1F7B", "U+1F7C",
       "U+1F7D", "ᾀ", "ᾁ", "ᾂ", "ᾃ", "ᾄ", "ᾅ", "ᾆ", "ᾇ", "ᾈ", "ᾉ", "ᾊ", "ᾋ",
       "ᾌ", "ᾍ", "ᾎ", "ᾏ", "ᾐ", "ᾑ", "ᾒ", "ᾓ", "ᾔ", "ᾕ", "ᾖ", "ᾗ", "ᾘ", "ᾙ",
       "ᾚ", "ᾛ", "ᾜ", "ᾝ", "ᾞ", "ᾟ", "ᾠ", "ᾡ", "ᾢ", "ᾣ", "ᾤ", "ᾥ", "ᾦ", "ᾧ",
       "ᾨ", "ᾩ", "ᾪ", "ᾫ", "ᾬ", "ᾭ", "ᾮ", "ᾯ", "ᾰ", "ᾱ", "ᾲ", "ᾳ", "ᾴ", "ᾶ",
       "ᾷ", "Ᾰ", "Ᾱ", "Ὰ", "Ά", "ᾼ", "ι", "ῂ", "ῃ", "ῄ", "ῆ", "ῇ", "Ὲ", "Έ",
       "Ὴ", "Ή", "ῌ", "ῐ", "ῑ", "ῒ", "ΐ", "ῖ", "ῗ", "Ῐ", "Ῑ", "Ὶ", "Ί", "ῠ",
       "ῡ", "ῢ", "ΰ", "ῤ", "ῥ", "ῦ", "ῧ", "Ῠ", "Ῡ", "Ὺ", "Ύ", "Ῥ", "ῲ", "ῳ",
       "ῴ", "ῶ", "ῷ", "Ὸ", "Ό", "Ὼ", "Ώ", "ῼ", "U+2071", "U+207F", "ₐ", "ₑ",
       "ₒ", "ₓ", "ₔ", "ₕ", "ₖ", "ₗ", "ₘ", "ₙ", "ₚ", "ₛ", "ₜ", "U+2102",
       "U+2107", "U+210A", "U+210B", "U+210C", "U+210D", "U+210E", "U+210F",
       "U+2110", "U+2111", "U+2112", "U+2113", "U+2115", "U+2119", "U+211A",
       "U+211B", "U+211C", "U+211D", "U+2124", "U+2126", "U+2128", "U+212A",
       "U+212B", "U+212C", "U+212D", "U+212F", "U+2130", "U+2131", "U+2132",
       "U+2133", "U+2134", "U+2139", "U+213C", "U+213D", "U+213E", "U+213F",
       "U+2145", "U+2146", "U+2147", "U+2148", "U+2149", "U+214E", "U+2160",
       "U+2161", "U+2162", "U+2163", "U+2164", "U+2165", "U+2166", "U+2167",
       "U+2168", "U+2169", "U+216A", "U+216B", "U+216C", "U+216D", "U+216E",
       "U+216F", "U+2170", "U+2171", "U+2172", "U+2173", "U+2174", "U+2175",
       "U+2176", "U+2177", "U+2178", "U+2179", "U+217A", "U+217B", "U+217C",
       "U+217D", "U+217E", "U+217F", "Ↄ", "ↄ", "Ⓐ", "Ⓑ", "Ⓒ", "Ⓓ", "Ⓔ", "Ⓕ",
       "Ⓖ", "Ⓗ", "Ⓘ", "Ⓙ", "Ⓚ", "Ⓛ", "Ⓜ", "Ⓝ", "Ⓞ", "Ⓟ", "Ⓠ", "Ⓡ", "Ⓢ", "Ⓣ",
       "Ⓤ", "Ⓥ", "Ⓦ", "Ⓧ", "Ⓨ", "Ⓩ", "ⓐ", "ⓑ", "ⓒ", "ⓓ", "ⓔ", "ⓕ", "ⓖ", "ⓗ",
       "ⓘ", "ⓙ", "ⓚ", "ⓛ", "ⓜ", "ⓝ", "ⓞ", "ⓟ", "ⓠ", "ⓡ", "ⓢ", "ⓣ", "ⓤ", "ⓥ",
       "ⓦ", "ⓧ", "ⓨ", "ⓩ", "U+2C00", "U+2C01", "U+2C02", "U+2C03", "U+2C04",
       "U+2C05", "U+2C06", "U+2C07", "U+2C08", "U+2C09", "U+2C0A", "U+2C0B",
       "U+2C0C", "U+2C0D", "U+2C0E", "U+2C0F", "U+2C10", "U+2C11", "U+2C12",
       "U+2C13", "U+2C14", "U+2C15", "U+2C16", "U+2C17", "U+2C18", "U+2C19",
       "U+2C1A", "U+2C1B", "U+2C1C", "U+2C1D", "U+2C1E", "U+2C1F", "U+2C20",
       "U+2C21", "U+2C22", "U+2C23", "U+2C24", "U+2C25", "U+2C26", "U+2C27",
       "U+2C28", "U+2C29", "U+2C2A", "U+2C2B", "U+2C2C", "U+2C2D", "U+2C2E",
       "U+2C2F", "U+2C30", "U+2C31", "U+2C32", "U+2C33", "U+2C34", "U+2C35",
       "U+2C36", "U+2C37", "U+2C38", "U+2C39", "U+2C3A", "U+2C3B", "U+2C3C",
       "U+2C3D", "U+2C3E", "U+2C3F", "U+2C40", "U+2C41", "U+2C42", "U+2C43",
       "U+2C44", "U+2C45", "U+2C46", "U+2C47", "U+2C48", "U+2C49", "U+2C4A",
       "U+2C4B", "U+2C4C", "U+2C4D", "U+2C4E", "U+2C4F", "U+2C50", "U+2C51",
       "U+2C52", "U+2C53", "U+2C54", "U+2C55", "U+2C56", "U+2C57", "U+2C58",
       "U+2C59", "U+2C5A", "U+2C5B", "U+2C5C", "U+2C5D", "U+2C5E", "U+2C5F",
       "U+2C60", "U+2C61", "U+2C62", "U+2C63", "U+2C64", "U+2C65", "U+2C66",
       "U+2C67", "U+2C68", "U+2C69", "U+2C6A", "U+2C6B", "U+2C6C", "U+2C6D",
       "U+2C6E", "U+2C6F", "U+2C70", "U+2C71", "U+2C72", "U+2C73", "U+2C74",
       "U+2C75", "U+2C76", "U+2C77", "U+2C78", "U+2C79", "U+2C7A", "U+2C7B",
       "U+2C7C", "U+2C7D", "U+2C7E", "U+2C7F", "Ⲁ", "ⲁ", "Ⲃ", "ⲃ", "Ⲅ", "ⲅ",
       "Ⲇ", "ⲇ", "Ⲉ", "ⲉ", "Ⲋ", "ⲋ", "Ⲍ", "ⲍ", "Ⲏ", "ⲏ", "Ⲑ", "ⲑ", "Ⲓ", "ⲓ",
       "Ⲕ", "ⲕ", "Ⲗ", "ⲗ", "Ⲙ", "ⲙ", "Ⲛ", "ⲛ", "Ⲝ", "ⲝ", "Ⲟ", "ⲟ", "Ⲡ", "ⲡ",
       "Ⲣ", "ⲣ", "Ⲥ", "ⲥ", "Ⲧ", "ⲧ", "Ⲩ", "ⲩ", "Ⲫ", "ⲫ", "Ⲭ", "ⲭ", "Ⲯ", "ⲯ",
       "Ⲱ", "ⲱ", "Ⲳ", "ⲳ", "Ⲵ", "ⲵ", "Ⲷ", "ⲷ", "Ⲹ", "ⲹ", "Ⲻ", "ⲻ", "Ⲽ", "ⲽ",
       "Ⲿ", "ⲿ", "Ⳁ", "ⳁ", "Ⳃ", "ⳃ", "Ⳅ", "ⳅ", "Ⳇ", "ⳇ", "Ⳉ", "ⳉ", "Ⳋ", "ⳋ",
       "Ⳍ", "ⳍ", "Ⳏ", "ⳏ", "Ⳑ", "ⳑ", "Ⳓ", "ⳓ", "Ⳕ", "ⳕ", "Ⳗ", "ⳗ", "Ⳙ", "ⳙ",
       "Ⳛ", "ⳛ", "Ⳝ", "ⳝ", "Ⳟ", "ⳟ", "Ⳡ", "ⳡ", "Ⳣ", "ⳣ", "ⳤ", "Ⳬ", "ⳬ", "Ⳮ",
       "ⳮ", "Ⳳ", "ⳳ", "U+2D00", "U+2D01", "U+2D02", "U+2D03", "U+2D04",
       "U+2D05", "U+2D06", "U+2D07", "U+2D08", "U+2D09", "U+2D0A", "U+2D0B",
       "U+2D0C", "U+2D0D", "U+2D0E", "U+2D0F", "U+2D10", "U+2D11", "U+2D12",
       "U+2D13", "U+2D14", "U+2D15", "U+2D16", "U+2D17", "U+2D18", "U+2D19",
       "U+2D1A", "U+2D1B", "U+2D1C", "U+2D1D", "U+2D1E", "U+2D1F", "U+2D20",
       "U+2D21", "U+2D22", "U+2D23", "U+2D24", "U+2D25", "U+2D27", "U+2D2D",
       "U+A640", "U+A641", "U+A642", "U+A643", "U+A644", "U+A645", "U+A646",
       "U+A647", "U+A648", "U+A649", "U+A64A", "U+A64B", "U+A64C", "U+A64D",
       "U+A64E", "U+A64F", "U+A650", "U+A651", "U+A652", "U+A653", "U+A654",
       "U+A655", "U+A656", "U+A657", "U+A658", "U+A659", "U+A65A", "U+A65B",
       "U+A65C", "U+A65D", "U+A65E", "U+A65F", "U+A660", "U+A661", "U+A662",
       "U+A663", "U+A664", "U+A665", "U+A666", "U+A667", "U+A668", "U+A669",
       "U+A66A", "U+A66B", "U+A66C", "U+A66D", "Ꚁ", "ꚁ", "Ꚃ", "ꚃ", "Ꚅ", "ꚅ",
       "Ꚇ", "ꚇ", "Ꚉ", "ꚉ", "Ꚋ", "ꚋ", "Ꚍ", "ꚍ", "Ꚏ", "ꚏ", "Ꚑ", "ꚑ", "Ꚓ", "ꚓ",
       "Ꚕ", "ꚕ", "Ꚗ", "ꚗ", "Ꚙ", "ꚙ", "Ꚛ", "ꚛ", "ꚜ", "ꚝ", "U+A722", "U+A723",
       "U+A724", "U+A725", "U+A726", "U+A727", "U+A728", "U+A729", "U+A72A",
       "U+A72B", "U+A72C", "U+A72D", "U+A72E", "U+A72F", "U+A730", "U+A731",
       "U+A732", "U+A733", "U+A734", "U+A735", "U+A736", "U+A737", "U+A738",
       "U+A739", "U+A73A", "U+A73B", "U+A73C", "U+A73D", "U+A73E", "U+A73F",
       "U+A740", "U+A741", "U+A742", "U+A743", "U+A744", "U+A745", "U+A746",
       "U+A747", "U+A748", "U+A749", "U+A74A", "U+A74B", "U+A74C", "U+A74D",
       "U+A74E", "U+A74F", "U+A750", "U+A751", "U+A752", "U+A753", "U+A754",
       "U+A755", "U+A756", "U+A757", "U+A758", "U+A759", "U+A75A", "U+A75B",
       "U+A75C", "U+A75D", "U+A75E", "U+A75F", "U+A760", "U+A761", "U+A762",
       "U+A763", "U+A764", "U+A765", "U+A766", "U+A767", "U+A768", "U+A769",
       "U+A76A", "U+A76B", "U+A76C", "U+A76D", "U+A76E", "U+A76F", "U+A770",
       "U+A771", "U+A772", "U+A773", "U+A774", "U+A775", "U+A776", "U+A777",
       "U+A778", "U+A779", "U+A77A", "U+A77B", "U+A77C", "U+A77D", "U+A77E",
       "U+A77F", "Ꞁ", "ꞁ", "Ꞃ", "ꞃ", "Ꞅ", "ꞅ", "Ꞇ", "ꞇ", "Ꞌ", "ꞌ", "Ɥ", "ꞎ",
       "Ꞑ", "ꞑ", "Ꞓ", "ꞓ", "ꞔ", "ꞕ", "Ꞗ", "ꞗ", "Ꞙ", "ꞙ", "Ꞛ", "ꞛ", "Ꞝ", "ꞝ",
       "Ꞟ", "ꞟ", "Ꞡ", "ꞡ", "Ꞣ", "ꞣ", "Ꞥ", "ꞥ", "Ꞧ", "ꞧ", "Ꞩ", "ꞩ", "Ɦ", "Ɜ",
       "Ɡ", "Ɬ", "Ɪ", "ꞯ", "Ʞ", "Ʇ", "Ʝ", "Ꭓ", "Ꞵ", "ꞵ", "Ꞷ", "ꞷ", "Ꞹ", "ꞹ",
       "Ꞻ", "ꞻ", "Ꞽ", "ꞽ", "Ꞿ", "ꞿ", "Ꟁ", "ꟁ", "Ꟃ", "ꟃ", "Ꞔ", "Ʂ", "Ᶎ", "Ꟈ",
       "ꟈ", "Ꟊ", "ꟊ", "Ꟑ", "ꟑ", "ꟓ", "ꟕ", "Ꟗ", "ꟗ", "Ꟙ", "ꟙ", "Ꟶ", "ꟶ", "ꟸ",
       "ꟹ", "ꟺ", "U+AB30", "U+AB31", "U+AB32", "U+AB33", "U+AB34", "U+AB35",
       "U+AB36", "U+AB37", "U+AB38", "U+AB39", "U+AB3A", "U+AB3B", "U+AB3C",
       "U+AB3D", "U+AB3E", "U+AB3F", "U+AB40", "U+AB41", "U+AB42", "U+AB43",
       "U+AB44", "U+AB45", "U+AB46", "U+AB47", "U+AB48", "U+AB49", "U+AB4A",
       "U+AB4B", "U+AB4C", "U+AB4D", "U+AB4E", "U+AB4F", "U+AB50", "U+AB51",
       "U+AB52", "U+AB53", "U+AB54", "U+AB55", "U+AB56", "U+AB57", "U+AB58",
       "U+AB59", "U+AB5A", "U+AB5C", "U+AB5D", "U+AB5E", "U+AB5F", "U+AB60",
       "U+AB61", "U+AB62", "U+AB63", "U+AB64", "U+AB65", "U+AB66", "U+AB67",
       "U+AB68", "U+AB70", "U+AB71", "U+AB72", "U+AB73", "U+AB74", "U+AB75",
       "U+AB76", "U+AB77", "U+AB78", "U+AB79", "U+AB7A", "U+AB7B", "U+AB7C",
       "U+AB7D", "U+AB7E", "U+AB7F", "ꮀ", "ꮁ", "ꮂ", "ꮃ", "ꮄ", "ꮅ", "ꮆ", "ꮇ",
       "ꮈ", "ꮉ", "ꮊ", "ꮋ", "ꮌ", "ꮍ", "ꮎ", "ꮏ", "ꮐ", "ꮑ", "ꮒ", "ꮓ", "ꮔ", "ꮕ",
       "ꮖ", "ꮗ", "ꮘ", "ꮙ", "ꮚ", "ꮛ", "ꮜ", "ꮝ", "ꮞ", "ꮟ", "ꮠ", "ꮡ", "ꮢ", "ꮣ",
       "ꮤ", "ꮥ", "ꮦ", "ꮧ", "ꮨ", "ꮩ", "ꮪ", "ꮫ", "ꮬ", "ꮭ", "ꮮ", "ꮯ", "ꮰ", "ꮱ",
       "ꮲ", "ꮳ", "ꮴ", "ꮵ", "ꮶ", "ꮷ", "ꮸ", "ꮹ", "ꮺ", "ꮻ", "ꮼ", "ꮽ", "ꮾ", "ꮿ",
       "U+FB00", "U+FB01", "U+FB02", "U+FB03", "U+FB04", "U+FB05", "U+FB06",
       "U+FB13", "U+FB14", "U+FB15", "U+FB16", "U+FB17", "U+FF21", "U+FF22",
       "U+FF23", "U+FF24", "U+FF25", "U+FF26", "U+FF27", "U+FF28", "U+FF29",
       "U+FF2A", "U+FF2B", "U+FF2C", "U+FF2D", "U+FF2E", "U+FF2F", "U+FF30",
       "U+FF31", "U+FF32", "U+FF33", "U+FF34", "U+FF35", "U+FF36", "U+FF37",
       "U+FF38", "U+FF39", "U+FF3A", "U+FF41", "U+FF42", "U+FF43", "U+FF44",
       "U+FF45", "U+FF46", "U+FF47", "U+FF48", "U+FF49", "U+FF4A", "U+FF4B",
       "U+FF4C", "U+FF4D", "U+FF4E", "U+FF4F", "U+FF50", "U+FF51", "U+FF52",
       "U+FF53", "U+FF54", "U+FF55", "U+FF56", "U+FF57", "U+FF58", "U+FF59",
       "U+FF5A", "U+10400", "U+10401", "U+10402", "U+10403", "U+10404",
       "U+10405", "U+10406", "U+10407", "U+10408", "U+10409", "U+1040A",
       "U+1040B", "U+1040C", "U+1040D", "U+1040E", "U+1040F", "U+10410",
       "U+10411", "U+10412", "U+10413", "U+10414", "U+10415", "U+10416",
       "U+10417", "U+10418", "U+10419", "U+1041A", "U+1041B", "U+1041C",
       "U+1041D", "U+1041E", "U+1041F", "U+10420", "U+10421", "U+10422",
       "U+10423", "U+10424", "U+10425", "U+10426", "U+10427", "U+10428",
       "U+10429", "U+1042A", "U+1042B", "U+1042C", "U+1042D", "U+1042E",
       "U+1042F", "U+10430", "U+10431", "U+10432", "U+10433", "U+10434",
       "U+10435", "U+10436", "U+10437", "U+10438", "U+10439", "U+1043A",
       "U+1043B", "U+1043C", "U+1043D", "U+1043E", "U+1043F", "U+10440",
       "U+10441", "U+10442", "U+10443", "U+10444", "U+10445", "U+10446",
       "U+10447", "U+10448", "U+10449", "U+1044A", "U+1044B", "U+1044C",
       "U+1044D", "U+1044E", "U+1044F", "U+104B0", "U+104B1", "U+104B2",
       "U+104B3", "U+104B4", "U+104B5", "U+104B6", "U+104B7", "U+104B8",
       "U+104B9", "U+104BA", "U+104BB", "U+104BC", "U+104BD", "U+104BE",
       "U+104BF", "U+104C0", "U+104C1", "U+104C2", "U+104C3", "U+104C4",
       "U+104C5", "U+104C6", "U+104C7", "U+104C8", "U+104C9", "U+104CA",
       "U+104CB", "U+104CC", "U+104CD", "U+104CE", "U+104CF", "U+104D0",
       "U+104D1", "U+104D2", "U+104D3", "U+104D8", "U+104D9", "U+104DA",
       "U+104DB", "U+104DC", "U+104DD", "U+104DE", "U+104DF", "U+104E0",
       "U+104E1", "U+104E2", "U+104E3", "U+104E4", "U+104E5", "U+104E6",
       "U+104E7", "U+104E8", "U+104E9", "U+104EA", "U+104EB", "U+104EC",
       "U+104ED", "U+104EE", "U+104EF", "U+104F0", "U+104F1", "U+104F2",
       "U+104F3", "U+104F4", "U+104F5", "U+104F6", "U+104F7", "U+104F8",
       "U+104F9", "U+104FA", "U+104FB", "U+10570", "U+10571", "U+10572",
       "U+10573", "U+10574", "U+10575", "U+10576", "U+10577", "U+10578",
       "U+10579", "U+1057A", "U+1057C", "U+1057D", "U+1057E", "U+1057F",
       "U+10580", "U+10581", "U+10582", "U+10583", "U+10584", "U+10585",
       "U+10586", "U+10587", "U+10588", "U+10589", "U+1058A", "U+1058C",
       "U+1058D", "U+1058E", "U+1058F", "U+10590", "U+10591", "U+10592",
       "U+10594", "U+10595", "U+10597", "U+10598", "U+10599", "U+1059A",
       "U+1059B", "U+1059C", "U+1059D", "U+1059E", "U+1059F", "U+105A0",
       "U+105A1", "U+105A3", "U+105A4", "U+105A5", "U+105A6", "U+105A7",
       "U+105A8", "U+105A9", "U+105AA", "U+105AB", "U+105AC", "U+105AD",
       "U+105AE", "U+105AF", "U+105B0", "U+105B1", "U+105B3", "U+105B4",
       "U+105B5", "U+105B6", "U+105B7", "U+105B8", "U+105B9", "U+105BB",
       "U+105BC", "U+10780", "U+10783", "U+10784", "U+10785", "U+10787",
       "U+10788", "U+10789", "U+1078A", "U+1078B", "U+1078C", "U+1078D",
       "U+1078E", "U+1078F", "U+10790", "U+10791", "U+10792", "U+10793",
       "U+10794", "U+10795", "U+10796", "U+10797", "U+10798", "U+10799",
       "U+1079A", "U+1079B", "U+1079C", "U+1079D", "U+1079E", "U+1079F",
       "U+107A0", "U+107A1", "U+107A2", "U+107A3", "U+107A4", "U+107A5",
       "U+107A6", "U+107A7", "U+107A8", "U+107A9", "U+107AA", "U+107AB",
       "U+107AC", "U+107AD", "U+107AE", "U+107AF", "U+107B0", "U+107B2",
       "U+107B3", "U+107B4", "U+107B5", "U+107B6", "U+107B7", "U+107B8",
       "U+107B9", "U+107BA", "U+10C80", "U+10C81", "U+10C82", "U+10C83",
       "U+10C84", "U+10C85", "U+10C86", "U+10C87", "U+10C88", "U+10C89",
       "U+10C8A", "U+10C8B", "U+10C8C", "U+10C8D", "U+10C8E", "U+10C8F",
       "U+10C90", "U+10C91", "U+10C92", "U+10C93", "U+10C94", "U+10C95",
       "U+10C96", "U+10C97", "U+10C98", "U+10C99", "U+10C9A", "U+10C9B",
       "U+10C9C", "U+10C9D", "U+10C9E", "U+10C9F", "U+10CA0", "U+10CA1",
       "U+10CA2", "U+10CA3", "U+10CA4", "U+10CA5", "U+10CA6", "U+10CA7",
       "U+10CA8", "U+10CA9", "U+10CAA", "U+10CAB", "U+10CAC", "U+10CAD",
       "U+10CAE", "U+10CAF", "U+10CB0", "U+10CB1", "U+10CB2", "U+10CC0",
       "U+10CC1", "U+10CC2", "U+10CC3", "U+10CC4", "U+10CC5", "U+10CC6",
       "U+10CC7", "U+10CC8", "U+10CC9", "U+10CCA", "U+10CCB", "U+10CCC",
       "U+10CCD", "U+10CCE", "U+10CCF", "U+10CD0", "U+10CD1", "U+10CD2",
       "U+10CD3", "U+10CD4", "U+10CD5", "U+10CD6", "U+10CD7", "U+10CD8",
       "U+10CD9", "U+10CDA", "U+10CDB", "U+10CDC", "U+10CDD", "U+10CDE",
       "U+10CDF", "U+10CE0", "U+10CE1", "U+10CE2", "U+10CE3", "U+10CE4",
       "U+10CE5", "U+10CE6", "U+10CE7", "U+10CE8", "U+10CE9", "U+10CEA",
       "U+10CEB", "U+10CEC", "U+10CED", "U+10CEE", "U+10CEF", "U+10CF0",
       "U+10CF1", "U+10CF2", "U+118A0", "U+118A1", "U+118A2", "U+118A3",
       "U+118A4", "U+118A5", "U+118A6", "U+118A7", "U+118A8", "U+118A9",
       "U+118AA", "U+118AB", "U+118AC", "U+118AD", "U+118AE", "U+118AF",
       "U+118B0", "U+118B1", "U+118B2", "U+118B3", "U+118B4", "U+118B5",
       "U+118B6", "U+118B7", "U+118B8", "U+118B9", "U+118BA", "U+118BB",
       "U+118BC", "U+118BD", "U+118BE", "U+118BF", "U+118C0", "U+118C1",
       "U+118C2", "U+118C3", "U+118C4", "U+118C5", "U+118C6", "U+118C7",
       "U+118C8", "U+118C9", "U+118CA", "U+118CB", "U+118CC", "U+118CD",
       "U+118CE", "U+118CF", "U+118D0", "U+118D1", "U+118D2", "U+118D3",
       "U+118D4", "U+118D5", "U+118D6", "U+118D7", "U+118D8", "U+118D9",
       "U+118DA", "U+118DB", "U+118DC", "U+118DD", "U+118DE", "U+118DF",
       "U+16E40", "U+16E41", "U+16E42", "U+16E43", "U+16E44", "U+16E45",
       "U+16E46", "U+16E47", "U+16E48", "U+16E49", "U+16E4A", "U+16E4B",
       "U+16E4C", "U+16E4D", "U+16E4E", "U+16E4F", "U+16E50", "U+16E51",
       "U+16E52", "U+16E53", "U+16E54", "U+16E55", "U+16E56", "U+16E57",
       "U+16E58", "U+16E59", "U+16E5A", "U+16E5B", "U+16E5C", "U+16E5D",
       "U+16E5E", "U+16E5F", "U+16E60", "U+16E61", "U+16E62", "U+16E63",
       "U+16E64", "U+16E65", "U+16E66", "U+16E67", "U+16E68", "U+16E69",
       "U+16E6A", "U+16E6B", "U+16E6C", "U+16E6D", "U+16E6E", "U+16E6F",
       "U+16E70", "U+16E71", "U+16E72", "U+16E73", "U+16E74", "U+16E75",
       "U+16E76", "U+16E77", "U+16E78", "U+16E79", "U+16E7A", "U+16E7B",
       "U+16E7C", "U+16E7D", "U+16E7E", "U+16E7F", "U+1D400", "U+1D401",
       "U+1D402", "U+1D403", "U+1D404", "U+1D405", "U+1D406", "U+1D407",
       "U+1D408", "U+1D409", "U+1D40A", "U+1D40B", "U+1D40C", "U+1D40D",
       "U+1D40E", "U+1D40F", "U+1D410", "U+1D411", "U+1D412", "U+1D413",
       "U+1D414", "U+1D415", "U+1D416", "U+1D417", "U+1D418", "U+1D419",
       "U+1D41A", "U+1D41B", "U+1D41C", "U+1D41D", "U+1D41E", "U+1D41F",
       "U+1D420", "U+1D421", "U+1D422", "U+1D423", "U+1D424", "U+1D425",
       "U+1D426", "U+1D427", "U+1D428", "U+1D429", "U+1D42A", "U+1D42B",
       "U+1D42C", "U+1D42D", "U+1D42E", "U+1D42F", "U+1D430", "U+1D431",
       "U+1D432", "U+1D433", "U+1D434", "U+1D435", "U+1D436", "U+1D437",
       "U+1D438", "U+1D439", "U+1D43A", "U+1D43B", "U+1D43C", "U+1D43D",
       "U+1D43E", "U+1D43F", "U+1D440", "U+1D441", "U+1D442", "U+1D443",
       "U+1D444", "U+1D445", "U+1D446", "U+1D447", "U+1D448", "U+1D449",
       "U+1D44A", "U+1D44B", "U+1D44C", "U+1D44D", "U+1D44E", "U+1D44F",
       "U+1D450", "U+1D451", "U+1D452", "U+1D453", "U+1D454", "U+1D456",
       "U+1D457", "U+1D458", "U+1D459", "U+1D45A", "U+1D45B", "U+1D45C",
       "U+1D45D", "U+1D45E", "U+1D45F", "U+1D460", "U+1D461", "U+1D462",
       "U+1D463", "U+1D464", "U+1D465", "U+1D466", "U+1D467", "U+1D468",
       "U+1D469", "U+1D46A", "U+1D46B", "U+1D46C", "U+1D46D", "U+1D46E",
       "U+1D46F", "U+1D470", "U+1D471", "U+1D472", "U+1D473", "U+1D474",
       "U+1D475", "U+1D476", "U+1D477", "U+1D478", "U+1D479", "U+1D47A",
       "U+1D47B", "U+1D47C", "U+1D47D", "U+1D47E", "U+1D47F", "U+1D480",
       "U+1D481", "U+1D482", "U+1D483", "U+1D484", "U+1D485", "U+1D486",
       "U+1D487", "U+1D488", "U+1D489", "U+1D48A", "U+1D48B", "U+1D48C",
       "U+1D48D", "U+1D48E", "U+1D48F", "U+1D490", "U+1D491", "U+1D492",
       "U+1D493", "U+1D494", "U+1D495", "U+1D496", "U+1D497", "U+1D498",
       "U+1D499", "U+1D49A", "U+1D49B", "U+1D49C", "U+1D49E", "U+1D49F",
       "U+1D4A2", "U+1D4A5", "U+1D4A6", "U+1D4A9", "U+1D4AA", "U+1D4AB",
       "U+1D4AC", "U+1D4AE", "U+1D4AF", "U+1D4B0", "U+1D4B1", "U+1D4B2",
       "U+1D4B3", "U+1D4B4", "U+1D4B5", "U+1D4B6", "U+1D4B7", "U+1D4B8",
       "U+1D4B9", "U+1D4BB", "U+1D4BD", "U+1D4BE", "U+1D4BF", "U+1D4C0",
       "U+1D4C1", "U+1D4C2", "U+1D4C3", "U+1D4C5", "U+1D4C6", "U+1D4C7",
       "U+1D4C8", "U+1D4C9", "U+1D4CA", "U+1D4CB", "U+1D4CC", "U+1D4CD",
       "U+1D4CE", "U+1D4CF", "U+1D4D0", "U+1D4D1", "U+1D4D2", "U+1D4D3",
       "U+1D4D4", "U+1D4D5", "U+1D4D6", "U+1D4D7", "U+1D4D8", "U+1D4D9",
       "U+1D4DA", "U+1D4DB", "U+1D4DC", "U+1D4DD", "U+1D4DE", "U+1D4DF",
       "U+1D4E0", "U+1D4E1", "U+1D4E2", "U+1D4E3", "U+1D4E4", "U+1D4E5",
       "U+1D4E6", "U+1D4E7", "U+1D4E8", "U+1D4E9", "U+1D4EA", "U+1D4EB",
       "U+1D4EC", "U+1D4ED", "U+1D4EE", "U+1D4EF", "U+1D4F0", "U+1D4F1",
       "U+1D4F2", "U+1D4F3", "U+1D4F4", "U+1D4F5", "U+1D4F6", "U+1D4F7",
       "U+1D4F8", "U+1D4F9", "U+1D4FA", "U+1D4FB", "U+1D4FC", "U+1D4FD",
       "U+1D4FE", "U+1D4FF", "U+1D500", "U+1D501", "U+1D502", "U+1D503",
       "U+1D504", "U+1D505", "U+1D507", "U+1D508", "U+1D509", "U+1D50A",
       "U+1D50D", "U+1D50E", "U+1D50F", "U+1D510", "U+1D511", "U+1D512",
       "U+1D513", "U+1D514", "U+1D516", "U+1D517", "U+1D518", "U+1D519",
       "U+1D51A", "U+1D51B", "U+1D51C", "U+1D51E", "U+1D51F", "U+1D520",
       "U+1D521", "U+1D522", "U+1D523", "U+1D524", "U+1D525", "U+1D526",
       "U+1D527", "U+1D528", "U+1D529", "U+1D52A", "U+1D52B", "U+1D52C",
       "U+1D52D", "U+1D52E", "U+1D52F", "U+1D530", "U+1D531", "U+1D532",
       "U+1D533", "U+1D534", "U+1D535", "U+1D536", "U+1D537", "U+1D538",
       "U+1D539", "U+1D53B", "U+1D53C", "U+1D53D", "U+1D53E", "U+1D540",
       "U+1D541", "U+1D542", "U+1D543", "U+1D544", "U+1D546", "U+1D54A",
       "U+1D54B", "U+1D54C", "U+1D54D", "U+1D54E", "U+1D54F", "U+1D550",
       "U+1D552", "U+1D553", "U+1D554", "U+1D555", "U+1D556", "U+1D557",
       "U+1D558", "U+1D559", "U+1D55A", "U+1D55B", "U+1D55C", "U+1D55D",
       "U+1D55E", "U+1D55F", "U+1D560", "U+1D561", "U+1D562", "U+1D563",
       "U+1D564", "U+1D565", "U+1D566", "U+1D567", "U+1D568", "U+1D569",
       "U+1D56A", "U+1D56B", "U+1D56C", "U+1D56D", "U+1D56E", "U+1D56F",
       "U+1D570", "U+1D571", "U+1D572", "U+1D573", "U+1D574", "U+1D575",
       "U+1D576", "U+1D577", "U+1D578", "U+1D579", "U+1D57A", "U+1D57B",
       "U+1D57C", "U+1D57D", "U+1D57E", "U+1D57F", "U+1D580", "U+1D581",
       "U+1D582", "U+1D583", "U+1D584", "U+1D585", "U+1D586", "U+1D587",
       "U+1D588", "U+1D589", "U+1D58A", "U+1D58B", "U+1D58C", "U+1D58D",
       "U+1D58E", "U+1D58F", "U+1D590", "U+1D591", "U+1D592", "U+1D593",
       "U+1D594", "U+1D595", "U+1D596", "U+1D597", "U+1D598", "U+1D599",
       "U+1D59A", "U+1D59B", "U+1D59C", "U+1D59D", "U+1D59E", "U+1D59F",
       "U+1D5A0", "U+1D5A1", "U+1D5A2", "U+1D5A3", "U+1D5A4", "U+1D5A5",
       "U+1D5A6", "U+1D5A7", "U+1D5A8", "U+1D5A9", "U+1D5AA", "U+1D5AB",
       "U+1D5AC", "U+1D5AD", "U+1D5AE", "U+1D5AF", "U+1D5B0", "U+1D5B1",
       "U+1D5B2", "U+1D5B3", "U+1D5B4", "U+1D5B5", "U+1D5B6", "U+1D5B7",
       "U+1D5B8", "U+1D5B9", "U+1D5BA", "U+1D5BB", "U+1D5BC", "U+1D5BD",
       "U+1D5BE", "U+1D5BF", "U+1D5C0", "U+1D5C1", "U+1D5C2", "U+1D5C3",
       "U+1D5C4", "U+1D5C5", "U+1D5C6", "U+1D5C7", "U+1D5C8", "U+1D5C9",
       "U+1D5CA", "U+1D5CB", "U+1D5CC", "U+1D5CD", "U+1D5CE", "U+1D5CF",
       "U+1D5D0", "U+1D5D1", "U+1D5D2", "U+1D5D3", "U+1D5D4", "U+1D5D5",
       "U+1D5D6", "U+1D5D7", "U+1D5D8", "U+1D5D9", "U+1D5DA", "U+1D5DB",
       "U+1D5DC", "U+1D5DD", "U+1D5DE", "U+1D5DF", "U+1D5E0", "U+1D5E1",
       "U+1D5E2", "U+1D5E3", "U+1D5E4", "U+1D5E5", "U+1D5E6", "U+1D5E7",
       "U+1D5E8", "U+1D5E9", "U+1D5EA", "U+1D5EB", "U+1D5EC", "U+1D5ED",
       "U+1D5EE", "U+1D5EF", "U+1D5F0", "U+1D5F1", "U+1D5F2", "U+1D5F3",
       "U+1D5F4", "U+1D5F5", "U+1D5F6", "U+1D5F7", "U+1D5F8", "U+1D5F9",
       "U+1D5FA", "U+1D5FB", "U+1D5FC", "U+1D5FD", "U+1D5FE", "U+1D5FF",
       "U+1D600", "U+1D601", "U+1D602", "U+1D603", "U+1D604", "U+1D605",
       "U+1D606", "U+1D607", "U+1D608", "U+1D609", "U+1D60A", "U+1D60B",
       "U+1D60C", "U+1D60D", "U+1D60E", "U+1D60F", "U+1D610", "U+1D611",
       "U+1D612", "U+1D613", "U+1D614", "U+1D615", "U+1D616", "U+1D617",
       "U+1D618", "U+1D619", "U+1D61A", "U+1D61B", "U+1D61C", "U+1D61D",
       "U+1D61E", "U+1D61F", "U+1D620", "U+1D621", "U+1D622", "U+1D623",
       "U+1D624", "U+1D625", "U+1D626", "U+1D627", "U+1D628", "U+1D629",
       "U+1D62A", "U+1D62B", "U+1D62C", "U+1D62D", "U+1D62E", "U+1D62F",
       "U+1D630", "U+1D631", "U+1D632", "U+1D633", "U+1D634", "U+1D635",
       "U+1D636", "U+1D637", "U+1D638", "U+1D639", "U+1D63A", "U+1D63B",
       "U+1D63C", "U+1D63D", "U+1D63E", "U+1D63F", "U+1D640", "U+1D641",
       "U+1D642", "U+1D643", "U+1D644", "U+1D645", "U+1D646", "U+1D647",
       "U+1D648", "U+1D649", "U+1D64A", "U+1D64B", "U+1D64C", "U+1D64D",
       "U+1D64E", "U+1D64F", "U+1D650", "U+1D651", "U+1D652", "U+1D653",
       "U+1D654", "U+1D655", "U+1D656", "U+1D657", "U+1D658", "U+1D659",
       "U+1D65A", "U+1D65B", "U+1D65C", "U+1D65D", "U+1D65E", "U+1D65F",
       "U+1D660", "U+1D661", "U+1D662", "U+1D663", "U+1D664", "U+1D665",
       "U+1D666", "U+1D667", "U+1D668", "U+1D669", "U+1D66A", "U+1D66B",
       "U+1D66C", "U+1D66D", "U+1D66E", "U+1D66F", "U+1D670", "U+1D671",
       "U+1D672", "U+1D673", "U+1D674", "U+1D675", "U+1D676", "U+1D677",
       "U+1D678", "U+1D679", "U+1D67A", "U+1D67B", "U+1D67C", "U+1D67D",
       "U+1D67E", "U+1D67F", "U+1D680", "U+1D681", "U+1D682", "U+1D683",
       "U+1D684", "U+1D685", "U+1D686", "U+1D687", "U+1D688", "U+1D689",
       "U+1D68A", "U+1D68B", "U+1D68C", "U+1D68D", "U+1D68E", "U+1D68F",
       "U+1D690", "U+1D691", "U+1D692", "U+1D693", "U+1D694", "U+1D695",
       "U+1D696", "U+1D697", "U+1D698", "U+1D699", "U+1D69A", "U+1D69B",
       "U+1D69C", "U+1D69D", "U+1D69E", "U+1D69F", "U+1D6A0", "U+1D6A1",
       "U+1D6A2", "U+1D6A3", "U+1D6A4", "U+1D6A5", "U+1D6A8", "U+1D6A9",
       "U+1D6AA", "U+1D6AB", "U+1D6AC", "U+1D6AD", "U+1D6AE", "U+1D6AF",
       "U+1D6B0", "U+1D6B1", "U+1D6B2", "U+1D6B3", "U+1D6B4", "U+1D6B5",
       "U+1D6B6", "U+1D6B7", "U+1D6B8", "U+1D6B9", "U+1D6BA", "U+1D6BB",
       "U+1D6BC", "U+1D6BD", "U+1D6BE", "U+1D6BF", "U+1D6C0", "U+1D6C2",
       "U+1D6C3", "U+1D6C4", "U+1D6C5", "U+1D6C6", "U+1D6C7", "U+1D6C8",
       "U+1D6C9", "U+1D6CA", "U+1D6CB", "U+1D6CC", "U+1D6CD", "U+1D6CE",
       "U+1D6CF", "U+1D6D0", "U+1D6D1", "U+1D6D2", "U+1D6D3", "U+1D6D4",
       "U+1D6D5", "U+1D6D6", "U+1D6D7", "U+1D6D8", "U+1D6D9", "U+1D6DA",
       "U+1D6DC", "U+1D6DD", "U+1D6DE", "U+1D6DF", "U+1D6E0", "U+1D6E1",
       "U+1D6E2", "U+1D6E3", "U+1D6E4", "U+1D6E5", "U+1D6E6", "U+1D6E7",
       "U+1D6E8", "U+1D6E9", "U+1D6EA", "U+1D6EB", "U+1D6EC", "U+1D6ED",
       "U+1D6EE", "U+1D6EF", "U+1D6F0", "U+1D6F1", "U+1D6F2", "U+1D6F3",
       "U+1D6F4", "U+1D6F5", "U+1D6F6", "U+1D6F7", "U+1D6F8", "U+1D6F9",
       "U+1D6FA", "U+1D6FC", "U+1D6FD", "U+1D6FE", "U+1D6FF", "U+1D700",
       "U+1D701", "U+1D702", "U+1D703", "U+1D704", "U+1D705", "U+1D706",
       "U+1D707", "U+1D708", "U+1D709", "U+1D70A", "U+1D70B", "U+1D70C",
       "U+1D70D", "U+1D70E", "U+1D70F", "U+1D710", "U+1D711", "U+1D712",
       "U+1D713", "U+1D714", "U+1D716", "U+1D717", "U+1D718", "U+1D719",
       "U+1D71A", "U+1D71B", "U+1D71C", "U+1D71D", "U+1D71E", "U+1D71F",
       "U+1D720", "U+1D721", "U+1D722", "U+1D723", "U+1D724", "U+1D725",
       "U+1D726", "U+1D727", "U+1D728", "U+1D729", "U+1D72A", "U+1D72B",
       "U+1D72C", "U+1D72D", "U+1D72E", "U+1D72F", "U+1D730", "U+1D731",
       "U+1D732", "U+1D733", "U+1D734", "U+1D736", "U+1D737", "U+1D738",
       "U+1D739", "U+1D73A", "U+1D73B", "U+1D73C", "U+1D73D", "U+1D73E",
       "U+1D73F", "U+1D740", "U+1D741", "U+1D742", "U+1D743", "U+1D744",
       "U+1D745", "U+1D746", "U+1D747", "U+1D748", "U+1D749", "U+1D74A",
       "U+1D74B", "U+1D74C", "U+1D74D", "U+1D74E", "U+1D750", "U+1D751",
       "U+1D752", "U+1D753", "U+1D754", "U+1D755", "U+1D756", "U+1D757",
       "U+1D758", "U+1D759", "U+1D75A", "U+1D75B", "U+1D75C", "U+1D75D",
       "U+1D75E", "U+1D75F", "U+1D760", "U+1D761", "U+1D762", "U+1D763",
       "U+1D764", "U+1D765", "U+1D766", "U+1D767", "U+1D768", "U+1D769",
       "U+1D76A", "U+1D76B", "U+1D76C", "U+1D76D", "U+1D76E", "U+1D770",
       "U+1D771", "U+1D772", "U+1D773", "U+1D774", "U+1D775", "U+1D776",
       "U+1D777", "U+1D778", "U+1D779", "U+1D77A", "U+1D77B", "U+1D77C",
       "U+1D77D", "U+1D77E", "U+1D77F", "U+1D780", "U+1D781", "U+1D782",
       "U+1D783", "U+1D784", "U+1D785", "U+1D786", "U+1D787", "U+1D788",
       "U+1D78A", "U+1D78B", "U+1D78C", "U+1D78D", "U+1D78E", "U+1D78F",
       "U+1D790", "U+1D791", "U+1D792", "U+1D793", "U+1D794", "U+1D795",
       "U+1D796", "U+1D797", "U+1D798", "U+1D799", "U+1D79A", "U+1D79B",
       "U+1D79C", "U+1D79D", "U+1D79E", "U+1D79F", "U+1D7A0", "U+1D7A1",
       "U+1D7A2", "U+1D7A3", "U+1D7A4", "U+1D7A5", "U+1D7A6", "U+1D7A7",
       "U+1D7A8", "U+1D7AA", "U+1D7AB", "U+1D7AC", "U+1D7AD", "U+1D7AE",
       "U+1D7AF", "U+1D7B0", "U+1D7B1", "U+1D7B2", "U+1D7B3", "U+1D7B4",
       "U+1D7B5", "U+1D7B6", "U+1D7B7", "U+1D7B8", "U+1D7B9", "U+1D7BA",
       "U+1D7BB", "U+1D7BC", "U+1D7BD", "U+1D7BE", "U+1D7BF", "U+1D7C0",
       "U+1D7C1", "U+1D7C2", "U+1D7C4", "U+1D7C5", "U+1D7C6", "U+1D7C7",
       "U+1D7C8", "U+1D7C9", "U+1D7CA", "U+1D7CB", "U+1DF00", "U+1DF01",
       "U+1DF02", "U+1DF03", "U+1DF04", "U+1DF05", "U+1DF06", "U+1DF07",
       "U+1DF08", "U+1DF09", "U+1DF0B", "U+1DF0C", "U+1DF0D", "U+1DF0E",
       "U+1DF0F", "U+1DF10", "U+1DF11", "U+1DF12", "U+1DF13", "U+1DF14",
       "U+1DF15", "U+1DF16", "U+1DF17", "U+1DF18", "U+1DF19", "U+1DF1A",
       "U+1DF1B", "U+1DF1C", "U+1DF1D", "U+1DF1E", "U+1E900", "U+1E901",
       "U+1E902", "U+1E903", "U+1E904", "U+1E905", "U+1E906", "U+1E907",
       "U+1E908", "U+1E909", "U+1E90A", "U+1E90B", "U+1E90C", "U+1E90D",
       "U+1E90E", "U+1E90F", "U+1E910", "U+1E911", "U+1E912", "U+1E913",
       "U+1E914", "U+1E915", "U+1E916", "U+1E917", "U+1E918", "U+1E919",
       "U+1E91A", "U+1E91B", "U+1E91C", "U+1E91D", "U+1E91E", "U+1E91F",
       "U+1E920", "U+1E921", "U+1E922", "U+1E923", "U+1E924", "U+1E925",
       "U+1E926", "U+1E927", "U+1E928", "U+1E929", "U+1E92A", "U+1E92B",
       "U+1E92C", "U+1E92D", "U+1E92E", "U+1E92F", "U+1E930", "U+1E931",
       "U+1E932", "U+1E933", "U+1E934", "U+1E935", "U+1E936", "U+1E937",
       "U+1E938", "U+1E939", "U+1E93A", "U+1E93B", "U+1E93C", "U+1E93D",
       "U+1E93E", "U+1E93F", "U+1E940", "U+1E941", "U+1E942", "U+1E943",
       "U+1F130", "U+1F131", "U+1F132", "U+1F133", "U+1F134", "U+1F135",
       "U+1F136", "U+1F137", "U+1F138", "U+1F139", "U+1F13A", "U+1F13B",
       "U+1F13C", "U+1F13D", "U+1F13E", "U+1F13F", "U+1F140", "U+1F141",
       "U+1F142", "U+1F143", "U+1F144", "U+1F145", "U+1F146", "U+1F147",
       "U+1F148", "U+1F149", "U+1F150", "U+1F151", "U+1F152", "U+1F153",
       "U+1F154", "U+1F155", "U+1F156", "U+1F157", "U+1F158", "U+1F159",
       "U+1F15A", "U+1F15B", "U+1F15C", "U+1F15D", "U+1F15E", "U+1F15F",
       "U+1F160", "U+1F161", "U+1F162", "U+1F163", "U+1F164", "U+1F165",
       "U+1F166", "U+1F167", "U+1F168", "U+1F169", "U+1F170", "U+1F171",
       "U+1F172", "U+1F173", "U+1F174", "U+1F175", "U+1F176", "U+1F177",
       "U+1F178", "U+1F179", "U+1F17A", "U+1F17B", "U+1F17C", "U+1F17D",
       "U+1F17E", "U+1F17F", "U+1F180", "U+1F181", "U+1F182", "U+1F183",
       "U+1F184", "U+1F185", "U+1F186", "U+1F187", "U+1F188", "U+1F189"
    }

\* The table of a list of pairs (character, its one-character mapping), as
\* a function from the character to the mapped string.
simple_case(pairs) ==
    [c \in { pairs[i][1] : i \in 1..Len(pairs) } |->
        << pairs[CHOOSE i \in 1..Len(pairs) : pairs[i][1] = c][2] >>]

\* The table of a list of pairs (character, the string it maps to).
special_case(pairs) ==
    [c \in { pairs[i][1] : i \in 1..Len(pairs) } |->
        pairs[CHOOSE i \in 1..Len(pairs) : pairs[i][1] = c][2]]

LowerCase == special_case(LowerSpecial) @@ simple_case(LowerPairs)

UpperCase == special_case(UpperSpecial) @@ simple_case(UpperPairs)

\* str.lower() of one character: a string (a sequence of characters).
lower_char(c) == IF c \in DOMAIN LowerCase THEN LowerCase[c] ELSE <<c>>

\* str.upper() of one character: a string (a sequence of characters).
upper_char(c) == IF c \in DOMAIN UpperCase THEN UpperCase[c] ELSE <<c>>

\* The strings of a list, concatenated.
RECURSIVE concat(_)
concat(parts) == IF parts = <<>> THEN <<>> ELSE Head(parts) \o concat(Tail(parts))

\* The capital sigma s[i] is in the Final_Sigma context: the nearest
\* character before it that is not case-ignorable is cased, and the nearest
\* one after it that is not case-ignorable, if any, is not cased.
final_sigma(s, i) ==
    LET before == { j \in 1..(i - 1) : s[j] \notin CaseIgnorable }
        after == { j \in (i + 1)..Len(s) : s[j] \notin CaseIgnorable }
    IN  /\ before # {}
        /\ s[CHOOSE j \in before : \A k \in before : k <= j] \in Cased
        /\ \/ after = {}
           \/ s[CHOOSE j \in after : \A k \in after : j <= k] \notin Cased

\* The lower case of the character s[i] in the string s: that of the
\* character alone, except for a capital sigma (U+03A3), which becomes a
\* final sigma (U+03C2) in the Final_Sigma context.
lower_at(s, i) ==
    IF s[i] = "Σ" /\ final_sigma(s, i) THEN <<"ς">> ELSE lower_char(s[i])

\* str.lower()
lower(s) ==
    IF \A i \in 1..Len(s) : Len(lower_at(s, i)) = 1
    THEN [i \in 1..Len(s) |-> lower_at(s, i)[1]]
    ELSE concat([i \in 1..Len(s) |-> lower_at(s, i)])

\* str.upper()
upper(s) ==
    IF \A i \in 1..Len(s) : Len(upper_char(s[i])) = 1
    THEN [i \in 1..Len(s) |-> upper_char(s[i])[1]]
    ELSE concat([i \in 1..Len(s) |-> upper_char(s[i])])

\* str.count(",")
count_commas(s) == Cardinality({i \in 1..Len(s) : s[i] = ","})

\* The characters str.strip() removes: those for which str.isspace() holds,
\* U+0009..U+000D, U+001C..U+0020, U+0085, U+00A0, U+1680, U+2000..U+200A,
\* U+2028, U+2029, U+202F, U+205F and U+3000.
Whitespace ==
    {
       "\t", "\n", "", "\f", "\r", "", "", "", "", " ", "", " ", " ",
       "U+2000", "U+2001", "U+2002", "U+2003", "U+2004", "U+2005", "U+2006",
       "U+2007", "U+2008", "U+2009", "U+200A", "U+2028", "U+2029", "U+202F",
       "U+205F", "U+3000"
    }

\* str.lstrip(): leading whitespace removed
RECURSIVE lstrip(_)
lstrip(s) == IF s # <<>> /\ Head(s) \in Whitespace THEN lstrip(Tail(s)) ELSE s

\* str.rstrip(): trailing whitespace removed
RECURSIVE rstrip(_)
rstrip(s) ==
    IF s # <<>> /\ s[Len(s)] \in Whitespace
    THEN rstrip(SubSeq(s, 1, Len(s) - 1)) ELSE s

\* str.strip()
strip(s) == rstrip(lstrip(s))

\* filter(None, parts): the non-empty strings of a list, in order
NonEmpty(s) == s # <<>>

\* ", ".join(parts)
RECURSIVE join(_)
join(parts) ==
    IF parts = <<>> THEN <<>>
    ELSE IF Len(parts) = 1 THEN parts[1]
    ELSE parts[1] \o <<",", " ">> \o join(Tail(parts))

\* a or b or c on strings: the first non-empty one (the last if all are empty)
first_nonempty(a, b, c) == IF a # <<>> THEN a ELSE IF b # <<>> THEN b ELSE c

\* The sentinel of lines 211 and 213 and the test of line 243.
UnknownLocation ==
    <<"U","n","k","n","o","w","n"," ","L","o","c","a","t","i","o","n">>

\* Python's None for last_location; no place name is equal to it.
None == <<"None">>

\* The empty dict.
EmptyDict == <<>>

\* ------------------------------------------------------------------ providers
\* SERVICES: the chain of providers tried for each preferred provider.
SERVICES ==
    [Nominatim  |-> <<"Nominatim", "OpenCage", "LocationIQ">>,
     OpenCage   |-> <<"OpenCage", "Nominatim", "LocationIQ">>,
     LocationIQ |-> <<"LocationIQ", "Nominatim", "OpenCage">>]

\* The choices of the -s option.
ServiceNames == {"Nominatim", "OpenCage", "LocationIQ"}

\* The address fields of a provider's JSON answer; <<>> is an absent field.
Resp(road, suburb, city, town, village, state, cc) ==
    [road |-> road, suburb |-> suburb, city |-> city, town |-> town,
     village |-> village, state |-> state, country_code |-> cc]

NoFields == Resp(<<>>, <<>>, <<>>, <<>>, <<>>, <<>>, <<>>)

\* The answers a provider gives in the model, by the number of commas of the
\* name they yield: country only (0), city and country (1), road, city,
\* state, country (3).
Responses ==
    { Resp(<<>>, <<>>, <<>>, <<>>, <<>>, <<>>, <<"p","t">>),
      Resp(<<>>, <<>>, <<"A","b">>, <<>>, <<>>, <<>>, <<"p","t">>),
      Resp(<<"R","d">>, <<>>, <<"A","b">>, <<>>, <<>>, <<"S","t">>, <<"p","t">>) }

\* What one provider request does: requests.get or r.json() raises
\* ("exception"), the HTTP status is not a success ("http_error"), or the
\* answer is parsed ("ok", with its address fields).
Outcomes ==
    { [kind |-> "exception", data |-> NoFields],
      [kind |-> "http_error", data |-> NoFields] }
    \cup { [kind |-> "ok", data |-> r] : r \in Responses }

\* Nominatim and LocationIQ: the name built from data['address'].
address_location(addr) ==
    join(SelectSeq(<<addr.road,
                     addr.suburb,
                     first_nonempty(addr.city, addr.town, addr.village),
                     addr.state,
                     upper(addr.country_code)>>, NonEmpty))

\* OpenCage: the name built from data['results'][0]['components'].
components_location(components) ==
    join(SelectSeq(<<components.road,
                     components.suburb,
                     components.city,
                     components.state,
                     upper(components.country_code)>>, NonEmpty))

\* The value of `location` after the try block of one loop iteration that did
\* not `continue` (the outcome is "ok" or "exception").
provider_location(service, outcome) ==
    IF outcome.kind = "exception" THEN UnknownLocation
    ELSE IF service = "OpenCage" THEN components_location(outcome.data)
    ELSE address_location(outcome.data)

\* provider_location, tabulated once for the services and outcomes of the model.
ProviderLocationTable ==
    [s \in ServiceNames, o \in Outcomes |-> provider_location(s, o)]

\* The early-exit threshold of line 220.
GoodEnough == 3

\* Lines 217-219: the best candidate after scoring `location`.
score_update(last_location, location) ==
    IF count_commas(location) >
         (IF last_location = None THEN 0 ELSE count_commas(last_location))
    THEN location
    ELSE last_location

\* Lines 220-221: the loop breaks after this candidate.
stop_early_above(location) == count_commas(location) > GoodEnough

stop_early(location) == count_commas(location) >= GoodEnough

\* Lines 157-161: the value last_request_time gets when the clock reads `now`
\* on entry; time.sleep returns no earlier than asked.
acquire_no_sleep(now, last_request_time) == now

acquire(now, last_request_time) ==
    IF now - last_request_time < TicksPerSecond
    THEN now + (TicksPerSecond - (now - last_request_time))
    ELSE now

\* LOCATION_ALIAS.get(name.lower(), name); lines 225-227 are the same lookup.
alias_get(alias, name) ==
    IF lower(name) \in DOMAIN alias THEN alias[lower(name)] ELSE name

\* Lines 225-228: reverse_geocode's return value; last_location.lower() raises
\* AttributeError when last_location is None.
reverse_geocode_return(last_location, alias) ==
    IF last_location = None
    THEN [raised |-> TRUE, location |-> None]
    ELSE [raised |-> FALSE, location |-> alias_get(alias, last_location)]

\* ------------------------------------------------------------------ cache
RECURSIVE pow2(_)
pow2(n) == IF n = 0 THEN 1 ELSE 2 * pow2(n - 1)

\* 2^n % d, for d below 2^15
RECURSIVE pow2_mod(_, _)
pow2_mod(n, d) ==
    IF n <= 15 THEN pow2(n) % d
    ELSE (pow2_mod(n - 15, d) * (pow2(15) % d)) % d

\* The least t with m * 2^t >= 3125 * 2^12, for 0 < m < 3125 * 2^13.
RECURSIVE binary_shift(_)
binary_shift(m) == IF m >= 12800000 THEN 0 ELSE 1 + binary_shift(2 * m)

\* A coordinate of m units of 10^-5 degree is held as the double nearest to
\* m / 100000 = m / (3125 * 2^5): the 53-bit quotient of m * 2^s by 3125,
\* rounded to nearest, with s = binary_shift(m) + 40. The remainder of that
\* division tells whether the double is below (-1), at (0) or above (1) the
\* decimal value.
float_error(m) ==
    IF m = 0 THEN 0
    ELSE LET r == ((m % 3125) * pow2_mod(binary_shift(m) + 40, 3125)) % 3125
         IN  IF r = 0 THEN 0 ELSE IF 2 * r < 3125 THEN 0 - 1 ELSE 1

\* round(x, 4) of a coordinate given in units of 10^-5 degree: the sign and
\* the magnitude in units of 10^-4 degree (round(-0.00003, 4) is -0.0, which
\* formats differently from 0.0). round() rounds the double correctly, so a
\* fifth decimal of 5 goes the way the double lies from the half (0.00005 is
\* held as a double above it and gives 0.0001, 0.00015 as one below it and
\* gives 0.0001 too); only a half the double holds exactly (0.03125) goes to
\* the even neighbour.
round4(x) ==
    LET m == IF x < 0 THEN 0 - x ELSE x
        q == m \div 10
        r == m % 10
        e == float_error(m)
    IN  [neg |-> x < 0,
         mag |-> IF r < 5 THEN q
                 ELSE IF r > 5 THEN q + 1
                 ELSE IF e > 0 THEN q + 1
                 ELSE IF e < 0 THEN q
                 ELSE IF q % 2 = 0 THEN q ELSE q + 1]

\* cache_key: f"{round(lat, 4)},{round(lon, 4)}"; the two formatted numbers.
cache_key(lat, lon) == <<round4(lat), round4(lon)>>

\* 10^n
RECURSIVE pow10(_)
pow10(n) == IF n = 0 THEN 1 ELSE 10 * pow10(n - 1)

\* (n * 2^k) % d, for d below 2^15
shifted_rem(n, d, k) == ((n % d) * pow2_mod(k, d)) % d

\* The binary digits of n / d (below 256), most significant first: 8 digits
\* before the point and 66 after it, the rest cut off. Every double that
\* line 48 computes for a coordinate has all its digits in these places.
div_bits(n, d) ==
    SubSeq([i \in 1..74 |-> IF i <= 8 THEN ((n \div d) \div pow2(8 - i)) % 2
                            ELSE (2 * shifted_rem(n, d, i - 9)) \div d], 1, 74)

\* The carry into place i of the sum of two digit strings: a place after i
\* where both digits are 1, with one digit 1 in every place between.
carry_into(a, b, i) ==
    IF \E j \in (i + 1)..Len(a) :
           /\ a[j] + b[j] = 2
           /\ \A k \in (i + 1)..(j - 1) : a[k] + b[k] = 1
    THEN 1 ELSE 0

\* The exact sum of two digit strings.
add_bits(a, b) ==
    SubSeq([i \in 1..Len(a) |-> (a[i] + b[i] + carry_into(a, b, i)) % 2],
           1, Len(a))

\* a < b, for digit strings of one length
bits_less(a, b) ==
    \E i \in 1..Len(a) : a[i] < b[i] /\ \A j \in 1..(i - 1) : a[j] = b[j]

\* IEEE 754 rounding of an exact result to a double: the digit string (and
\* whether digits that are not 0 were cut off after it) rounded to 53
\* significant digits, to the nearest, a half to the even neighbour.
round_53(bits, sticky) ==
    IF \A i \in 1..Len(bits) : bits[i] = 0 THEN bits
    ELSE LET first == CHOOSE i \in 1..Len(bits) :
                          bits[i] = 1 /\ \A j \in 1..(i - 1) : bits[j] = 0
             last == first + 52
         IN  IF last >= Len(bits) THEN bits
             ELSE LET rest == sticky \/ \E i \in (last + 2)..Len(bits) : bits[i] = 1
                      up == bits[last + 1] = 1 /\ (rest \/ bits[last] = 1)
                      cut == SubSeq(bits, 1, last)
                                 \o [i \in 1..(Len(bits) - last) |-> 0]
                      unit == [i \in 1..Len(bits) |-> IF i = last THEN 1 ELSE 0]
                  IN  IF up THEN add_bits(cut, unit) ELSE cut

\* float(n) / d
float_div(n, d) == round_53(div_bits(n, d), shifted_rem(n, d, 66) # 0)

\* The sum of two doubles.
float_add(a, b) == round_53(add_bits(a, b), FALSE)

\* Line 48: float(degrees) + float(minutes)/60 + float(seconds)/3600, for
\* whole seconds.
float_degrees(gps_str) ==
    float_add(float_add(div_bits(gps_str.degrees, 1),
                        float_div(gps_str.minutes, 60)),
              float_div(gps_str.seconds, 3600))

\* Whether the double of line 48 is below (-1), at (0) or above (1) the
\* degrees its string denotes.
degrees_error(gps_str) ==
    LET n == gps_str.degrees * 3600 + gps_str.minutes * 60 + gps_str.seconds
        exact == div_bits(n, 3600)
        decimal == float_degrees(gps_str)
    IN  IF bits_less(exact, decimal) THEN 1
        ELSE IF bits_less(decimal, exact) \/ shifted_rem(n, 3600, 66) # 0
             THEN 0 - 1
             ELSE 0

\* Lines 42-54: the decimal degrees of an exiftool string such as
\* 38 deg 44' 12" N, given by its groups (degrees, minutes, seconds,
\* direction), rounded to `precision` decimals: the sign and the magnitude in
\* units of 10^-precision degree (a southern or western 0 is -0.0). round()
\* rounds the double of line 48 correctly: when the string denotes a half of
\* the last decimal (0 deg 0' 18" is 0.005) the result goes the way the
\* double lies from that half, and to the even neighbour when the double is
\* the half.
gps_string_to_decimal(gps_str, precision) ==
    LET n == (gps_str.minutes * 60 + gps_str.seconds) * pow10(precision)
        below == gps_str.degrees * pow10(precision) + n \div 3600
        twice == 2 * (n % 3600)
        e == degrees_error(gps_str)
    IN  [neg |-> gps_str.direction \in {"S", "W"},
         mag |-> IF twice < 3600 THEN below
                 ELSE IF twice > 3600 THEN below + 1
                 ELSE IF e > 0 THEN below + 1
                 ELSE IF e < 0 THEN below
                 ELSE IF below % 2 = 0 THEN below ELSE below + 1,
         places |-> precision]

\* round(x, 4) of line 150 for a coordinate that gps_string_to_decimal returned.
round4_decimal(x) ==
    [neg |-> x.neg, mag |-> round4(x.mag * pow10(5 - x.places)).mag]

\* Lines 96-97 and 233: the cache key of a media file whose coordinates were
\* extracted with --precision `precision`.
file_cache_key(lat_str, lon_str, precision) ==
    <<round4_decimal(gps_string_to_decimal(lat_str, precision)),
      round4_decimal(gps_string_to_decimal(lon_str, precision))>>

\* Lines 234-239: the result of a cache hit.
lookup_hit_reset(cache, key, alias, last_request_time) ==
    [location |-> alias_get(alias, cache[key]), last_request_time |-> 0]

lookup_hit(cache, key, alias, last_request_time) ==
    [location |-> alias_get(alias, cache[key]),
     last_request_time |-> last_request_time]

\* Lines 240-247 after the provider loop: reverse_geocode returns or raises,
\* the alias is applied and the name is stored unless it is the sentinel.
lookup_miss_store_always(last_location, alias, cache, key) ==
    LET loc == IF last_location = None THEN UnknownLocation
               ELSE alias_get(alias, alias_get(alias, last_location))
    IN  [raised |-> FALSE, location |-> loc, cache |-> (key :> loc) @@ cache]

\* A variant of lookup_miss that keeps only the newest entry.
lookup_miss_newest_only(last_location, alias, cache, key) ==
    LET ret == reverse_geocode_return(last_location, alias)
        name == alias_get(alias, ret.location)
    IN  IF ret.raised
        THEN [raised |-> TRUE, location |-> None, cache |-> cache]
        ELSE [raised |-> FALSE,
              location |-> name,
              cache |-> IF name # UnknownLocation
                        THEN (key :> name)
                        ELSE cache]

lookup_miss(last_location, alias, cache, key) ==
    LET ret == reverse_geocode_return(last_location, alias)
        location == alias_get(alias, ret.location)
    IN  IF ret.raised
        THEN [raised |-> TRUE, location |-> None, cache |-> cache]
        ELSE [raised |-> FALSE,
              location |-> location,
              cache |-> IF location # UnknownLocation
                        THEN (key :> location) @@ cache
                        ELSE cache]

\* ------------------------------------------------------------------ aliases
\* LOCATION_ALIAS, the module-level table (lines 39-40). It is the table the
\* functions reverse_geocode and lookup_location_cached read; main assigns to
\* a local variable of the same name and never to this one.
LOCATION_ALIAS == EmptyDict

\* '=' in entry
has_equals(entry) == \E i \in 1..Len(entry) : entry[i] = "="

\* entry.split('=', 1)
split_equals(entry) ==
    LET i == CHOOSE k \in 1..Len(entry) :
                 entry[k] = "=" /\ \A j \in 1..(k - 1) : entry[j] # "="
    IN  <<SubSeq(entry, 1, i - 1), SubSeq(entry, i + 1, Len(entry))>>

\* Lines 339-345: one -a directive applied to main's alias table.
alias_directive(alias, entry) ==
    IF ~has_equals(entry) THEN alias
    ELSE LET parts == split_equals(entry)
         IN  (lower(strip(parts[1])) :> strip(parts[2])) @@ alias

\* Lines 337-345: all -a directives, in order.
RECURSIVE alias_directives(_, _)
alias_directives(alias, entries) ==
    IF entries = <<>> THEN alias
    ELSE alias_directives(alias_directive(alias, Head(entries)), Tail(entries))

\* ':' in entry
has_colon(entry) == \E k \in 1..Len(entry) : entry[k] = ":"

\* entry.split(':', 1)
split_colon(entry) ==
    LET i == CHOOSE k \in 1..Len(entry) :
                 entry[k] = ":" /\ \A j \in 1..(k - 1) : entry[j] # ":"
    IN  <<SubSeq(entry, 1, i - 1), SubSeq(entry, i + 1, Len(entry))>>

\* Lines 326-335: one -k directive applied to SERVICE_KEYS; an entry without
\* ':' and a service that has no key in the table are skipped.
key_directive(keys, entry) ==
    IF ~has_colon(entry) THEN keys
    ELSE LET parts == split_colon(entry)
             service == strip(parts[1])
             key == strip(parts[2])
         IN  IF service \notin DOMAIN keys THEN keys
             ELSE [keys EXCEPT ![service] = key]

\* Lines 324-336: all -k directives, in order.
RECURSIVE key_directives(_, _)
key_directives(keys, entries) ==
    IF entries = <<>> THEN keys
    ELSE key_directives(key_directive(keys, Head(entries)), Tail(entries))

\* ------------------------------------------------------------------ inputs
Date1 == <<"2","0","2","4","-","0","3","-","0","1">>
Date2 == <<"2","0","2","4","-","0","3","-","0","2">>

\* Coordinates (units of 10^-5 degree) and dates of the media items; the two
\* coordinates round to different 4-decimal keys.
ItemData ==
    { [lat |-> 12341, lon |-> -12344, date |-> Date1],
      [lat |-> 12346, lon |-> -12344, date |-> Date2] }

FileNames == <<"a.jpg", "b.jpg", "c.jpg", "d.jpg">>

\* The lists extract_coordinates_and_dates can return: one tuple
\* (source_file, lat, lon, date) per media file with GPS data.
GpsData ==
    UNION { { [i \in 1..n |-> [file |-> FileNames[i], lat |-> d[i].lat,
                                lon |-> d[i].lon, date |-> d[i].date]] :
              d \in [1..n -> ItemData] } : n \in 0..MaxItems }

NoItem == [file |-> "", lat |-> 0, lon |-> 0, date |-> <<>>]

\* The location cache file at startup: absent or empty, or holding the key of
\* the second coordinate from an earlier run.
CacheFiles ==
    { EmptyDict,
      cache_key(12346, -12344) :> <<"A","b",","," ","P","T">> }

\* The alias file at startup: "rd, ab, st, pt" -> "Trip", from an earlier run.
AliasFiles ==
    { <<"r","d",","," ","a","b",","," ","s","t",","," ","p","t">>
          :> <<"T","r","i","p">> }

\* The -a directives of the command line: none, or "Ab, PT = Home".
AliasArgs ==
    { <<>>,
      << <<"A","b",","," ","P","T"," ","="," ","H","o","m","e">> >> }

\* The -k directives of the command line: none, or "OpenCage:newkey",
\* "Bogus:zz" and "nocolon".
KeyArgs ==
    { <<>>,
      << <<"O","p","e","n","C","a","g","e",":","n","e","w","k","e","y">>,
         <<"B","o","g","u","s",":","z","z">>,
         <<"n","o","c","o","l","o","n">> >> }

\* The command lines of the model (lines 261-311): every preferred service,
\* with and without --dry-run, --clean-cache, -k directives and an -a
\* directive.
CommandLines ==
    { [service |-> "Nominatim", dry_run |-> FALSE, clean_cache |-> FALSE,
       key |-> <<>>, alias |-> a] : a \in AliasArgs \ {<<>>} }
    \cup { [service |-> "OpenCage", dry_run |-> TRUE, clean_cache |-> FALSE,
             key |-> k, alias |-> <<>>] : k \in KeyArgs \ {<<>>} }
    \cup { [service |-> "LocationIQ", dry_run |-> FALSE, clean_cache |-> TRUE,
             key |-> <<>>, alias |-> <<>>] }

\* SERVICE_KEYS as the module defines it (lines 33-37).
DefaultServiceKeys ==
    (<<"O","p","e","n","C","a","g","e">> :> <<"a","b","c","d","e","f","1","2","3","4","5">>)
    @@ (<<"L","o","c","a","t","i","o","n","I","Q">> :> <<"w","x","y","z","9","8","7","6","5","4","3","2">>)

\* ------------------------------------------------------------------ state
VARIABLES
    args,                \* the parsed command line: service, dry_run,
                         \* clean_cache, key, alias
    cache_file,          \* contents of location_cache.json
    alias_file,          \* contents of location_aliases.json
    keys_file,           \* contents of service_keys.json
    m_pc,                \* main's position
    CACHE,               \* the manager dict shared with the worker
    main_LOCATION_ALIAS, \* main's local LOCATION_ALIAS (line 322)
    SERVICE_KEYS,        \* the module-level key table
    gps_data,            \* the items returned by extraction
    enqueued,            \* how many items main has put on request_queue
    request_queue,
    result_queue,
    results,             \* main's list of received results
    timed_out,           \* a result_queue.get(timeout=10) raised Empty
    groups,              \* main's groups, in insertion order
    moved,               \* files moved by shutil.move
    w_pc,                \* the worker's position
    term_sent,           \* worker.terminate() has been called
    cur,                 \* the item the worker is resolving
    cur_hit,             \* its key was in the cache when it was picked up
    svc_idx,             \* index in the chain of the next provider to try
    last_location,       \* reverse_geocode's best candidate so far
    location,            \* the name lookup_location_cached returned
    raw,                 \* the name before aliasing (cache value or best candidate)
    last_request_time,   \* the worker's last_request_time
    clock,               \* the worker's latest reading of time.time()
    attempted,           \* providers the limiter was acquired for, for cur
    first_best,          \* the earliest of the candidates with the most commas
    all_failed,          \* no request for cur has been answered so far
    last_acq,            \* when the latest rate limiter acquisition completed
    cache_loaded,        \* the cache as loaded at startup
    cache_at_stop,       \* the cache when the worker process ended
    extract_outcome,     \* how the exiftool call of line 63 and its parse ended
    folders,             \* the folder name of every group, in group order
    made_dirs,           \* directories created by os.makedirs
    move_failed,         \* files whose os.makedirs or shutil.move raised
    fn_in,               \* the arguments of a function applied on its own
    fn_out,              \* and what it returned
    twin_other,          \* two runs side by side: the state of the other run,
    twin_base,           \* the state of this run before its step,
    twin_step            \* and the step the other run took, to be taken here

main_vars == <<args, cache_file, alias_file, keys_file, m_pc, main_LOCATION_ALIAS,
               SERVICE_KEYS, gps_data, enqueued, results, timed_out, groups,
               moved, cache_loaded, extract_outcome, folders, made_dirs, move_failed>>

worker_vars == <<cur, cur_hit, svc_idx, last_location, location, raw,
                 last_request_time, clock, attempted, first_best, all_failed, last_acq>>

vars == <<args, cache_file, alias_file, keys_file, m_pc, CACHE,
          main_LOCATION_ALIAS, SERVICE_KEYS, gps_data, enqueued, request_queue,
          result_queue, results, timed_out, groups, moved, w_pc, term_sent,
          cur, cur_hit, svc_idx, last_location, location, raw,
          last_request_time, clock, attempted, first_best, all_failed, last_acq,
          cache_loaded, cache_at_stop, extract_outcome, folders, made_dirs, move_failed,
          fn_in, fn_out, twin_other, twin_base, twin_step>>

fn_vars == <<fn_in, fn_out>>

twin_vars == <<twin_other, twin_base, twin_step>>

\* One run: there is no other run and no step to take after it.
NoTwin == [kind |-> "none"]

one_run ==
    /\ twin_other = NoTwin
    /\ twin_base = NoTwin
    /\ twin_step = NoTwin

\* No function is applied on its own.
NoCall == [kind |-> "none"]

\* Nothing loaded, no worker, nothing extracted, grouped or moved.
nothing_done ==
    /\ keys_file = EmptyDict
    /\ m_pc = "clean"
    /\ CACHE = EmptyDict
    /\ main_LOCATION_ALIAS = EmptyDict
    /\ SERVICE_KEYS = DefaultServiceKeys
    /\ gps_data = <<>>
    /\ enqueued = 0
    /\ request_queue = <<>>
    /\ result_queue = <<>>
    /\ results = <<>>
    /\ timed_out = FALSE
    /\ groups = <<>>
    /\ moved = {}
    /\ w_pc = "not_started"
    /\ term_sent = FALSE
    /\ cur = NoItem
    /\ cur_hit = FALSE
    /\ svc_idx = 1
    /\ last_location = None
    /\ location = None
    /\ raw = None
    /\ last_request_time = 0
    /\ clock = StartTime
    /\ attempted = <<>>
    /\ first_best = None
    /\ all_failed = TRUE
    /\ last_acq = 0
    /\ cache_loaded = EmptyDict
    /\ cache_at_stop = EmptyDict
    /\ extract_outcome = "not_run"
    /\ folders = <<>>
    /\ made_dirs = {}
    /\ move_failed = {}

\* The state when main is entered: arguments parsed, files as the previous
\* run left them, nothing loaded, no worker.
Init ==
    /\ args \in CommandLines
    /\ cache_file \in CacheFiles
    /\ alias_file \in AliasFiles
    /\ nothing_done
    /\ fn_in = NoCall
    /\ fn_out = None
    /\ one_run

\* ------------------------------------------------------------------ main
\* dict.update: the entries of `other` replace or extend those of `d`.
dict_update(d, other) == other @@ d

\* A variant of startup_order that starts the worker before the -a
\* directives are applied.
startup_order_worker_first ==
    <<"clean", "load", "key_args", "start", "alias_args", "extract">>

\* Lines 315-356: the order of main's steps up to the extraction.
startup_order ==
    <<"clean", "load", "key_args", "alias_args", "start", "extract">>

\* The step of main that follows step pc of the startup.
startup_next(pc) ==
    LET i == CHOOSE j \in 1..(Len(startup_order) - 1) : startup_order[j] = pc
    IN  startup_order[i + 1]

\* Lines 144-147: os.remove(CACHE_LOC_FILE); an absent file and an empty
\* document load alike (lines 127-134).
clean_cache(file) == EmptyDict

\* Lines 315-316: --clean-cache removes the cache file before anything is
\* loaded.
main_clean_cache ==
    /\ m_pc = "clean"
    /\ cache_file' = IF args.clean_cache THEN clean_cache(cache_file)
                                         ELSE cache_file
    /\ m_pc' = startup_next(m_pc)
    /\ UNCHANGED <<args, extract_outcome, folders, made_dirs, move_failed,
                   alias_file, keys_file, CACHE, main_LOCATION_ALIAS,
                   SERVICE_KEYS, gps_data, enqueued, request_queue,
                   result_queue, results, timed_out, groups, moved, w_pc,
                   term_sent, cache_loaded, cache_at_stop>>
    /\ UNCHANGED worker_vars
    /\ UNCHANGED fn_vars
    /\ UNCHANGED twin_vars

\* Lines 320-322: the three persisted documents are loaded.
main_load ==
    /\ m_pc = "load"
    /\ CACHE' = cache_file
    /\ cache_loaded' = cache_file
    /\ SERVICE_KEYS' = dict_update(SERVICE_KEYS, keys_file)
    /\ main_LOCATION_ALIAS' = alias_file
    /\ m_pc' = startup_next(m_pc)
    /\ UNCHANGED <<args, extract_outcome, folders, made_dirs, move_failed,
                   cache_file, alias_file, keys_file, gps_data, enqueued,
                   request_queue, result_queue, results, timed_out, groups,
                   moved, w_pc, term_sent, cache_at_stop>>
    /\ UNCHANGED worker_vars
    /\ UNCHANGED fn_vars
    /\ UNCHANGED twin_vars

\* Lines 324-336: the -k directives are written to SERVICE_KEYS.
main_key_args ==
    /\ m_pc = "key_args"
    /\ SERVICE_KEYS' = key_directives(SERVICE_KEYS, args.key)
    /\ m_pc' = startup_next(m_pc)
    /\ UNCHANGED <<args, extract_outcome, folders, made_dirs, move_failed,
                   cache_file, alias_file, keys_file, CACHE,
                   main_LOCATION_ALIAS, gps_data, enqueued, request_queue,
                   result_queue, results, timed_out, groups, moved, w_pc,
                   term_sent, cache_loaded, cache_at_stop>>
    /\ UNCHANGED worker_vars
    /\ UNCHANGED fn_vars
    /\ UNCHANGED twin_vars

\* Lines 337-345: the -a directives are written to main's alias table.
main_alias_args ==
    /\ m_pc = "alias_args"
    /\ main_LOCATION_ALIAS' = alias_directives(main_LOCATION_ALIAS, args.alias)
    /\ m_pc' = startup_next(m_pc)
    /\ UNCHANGED <<args, extract_outcome, folders, made_dirs, move_failed,
                   cache_file, alias_file, keys_file, CACHE, SERVICE_KEYS,
                   gps_data, enqueued, request_queue, result_queue, results,
                   timed_out, groups, moved, w_pc, term_sent, cache_loaded,
                   cache_at_stop>>
    /\ UNCHANGED worker_vars
    /\ UNCHANGED fn_vars
    /\ UNCHANGED twin_vars

\* Lines 347-352: the queues are created and the worker process is started.
main_start_worker ==
    /\ m_pc = "start"
    /\ request_queue' = <<>>
    /\ result_queue' = <<>>
    /\ w_pc' = "idle"
    /\ m_pc' = startup_next(m_pc)
    /\ UNCHANGED <<args, extract_outcome, folders, made_dirs, move_failed,
                   cache_file, alias_file, keys_file, CACHE,
                   main_LOCATION_ALIAS, SERVICE_KEYS, gps_data, enqueued,
                   results, timed_out, groups, moved, term_sent, cache_loaded,
                   cache_at_stop>>
    /\ UNCHANGED worker_vars
    /\ UNCHANGED fn_vars
    /\ UNCHANGED twin_vars

\* How the exiftool call and the parse of its output can end.
ExtractOutcomes == {"ok", "exit_nonzero", "unparsable"}

\* Lines 355-359 and 397-398: the media files are collected and their
\* metadata extracted; an empty list skips to the shutdown. A non-zero exit
\* of exiftool (check=True raises CalledProcessError, lines 65-67) gives the
\* empty list. On output that is not JSON json.loads (line 64) raises
\* json.JSONDecodeError; the except clause names only CalledProcessError, so
\* the error leaves extract_coordinates_and_dates and main.
main_extract ==
    /\ m_pc = "extract"
    /\ \E o \in ExtractOutcomes :
        /\ extract_outcome' = o
        /\ \/ /\ o = "ok"
              /\ \E data \in GpsData :
                    /\ gps_data' = data
                    /\ m_pc' = IF data = <<>> THEN "terminate" ELSE "enqueue"
           \/ /\ o = "exit_nonzero"
              /\ gps_data' = <<>>
              /\ m_pc' = "terminate"
           \/ /\ o = "unparsable"
              /\ gps_data' = gps_data
              /\ m_pc' = "raised"
    /\ UNCHANGED <<args, folders, made_dirs, move_failed,
                   cache_file, alias_file, keys_file, CACHE,
                   main_LOCATION_ALIAS, SERVICE_KEYS, enqueued, request_queue,
                   result_queue, results, timed_out, groups, moved, w_pc,
                   term_sent, cache_loaded, cache_at_stop>>
    /\ UNCHANGED worker_vars
    /\ UNCHANGED fn_vars
    /\ UNCHANGED twin_vars

\* Lines 361-362: one request_queue.put(item) of the loop, which waits for
\* nothing; the worker runs between two puts. After the last put main enters
\* the collection loop.
main_enqueue ==
    /\ m_pc = "enqueue"
    /\ enqueued < Len(gps_data)
    /\ request_queue' = Append(request_queue, gps_data[enqueued + 1])
    /\ enqueued' = enqueued + 1
    /\ m_pc' = IF enqueued + 1 < Len(gps_data) THEN "enqueue" ELSE "collect"
    /\ UNCHANGED <<args, extract_outcome, folders, made_dirs, move_failed,
                   cache_file, alias_file, keys_file, CACHE,
                   main_LOCATION_ALIAS, SERVICE_KEYS, gps_data, result_queue,
                   results, timed_out, groups, moved, w_pc, term_sent,
                   cache_loaded, cache_at_stop>>
    /\ UNCHANGED worker_vars
    /\ UNCHANGED fn_vars
    /\ UNCHANGED twin_vars

\* Lines 366-371: result_queue.get returns a result, which is appended.
main_collect_result ==
    /\ m_pc = "collect"
    /\ result_queue # <<>>
    /\ results' = Append(results, Head(result_queue))
    /\ result_queue' = Tail(result_queue)
    /\ m_pc' = IF Len(results) + 1 < Len(gps_data) THEN "collect" ELSE "group"
    /\ UNCHANGED <<args, extract_outcome, folders, made_dirs, move_failed,
                   cache_file, alias_file, keys_file, CACHE,
                   main_LOCATION_ALIAS, SERVICE_KEYS, gps_data, enqueued,
                   request_queue, timed_out, groups, moved, w_pc, term_sent,
                   cache_loaded, cache_at_stop>>
    /\ UNCHANGED worker_vars
    /\ UNCHANGED fn_vars
    /\ UNCHANGED twin_vars

\* Lines 372-374: where main goes when the wait raises Empty.
after_timeout_abort == "aborted"

\* A variant of after_timeout that waits again.
after_timeout_retry == "collect"

after_timeout == "group"

\* Lines 368 and 372-374: no result arrived within the timeout (the worker is
\* slow, a provider request has no time limit, or the worker has ended).
main_collect_timeout ==
    /\ m_pc = "collect"
    /\ result_queue = <<>>
    /\ timed_out' = TRUE
    /\ m_pc' = after_timeout
    /\ UNCHANGED <<args, extract_outcome, folders, made_dirs, move_failed,
                   cache_file, alias_file, keys_file, CACHE,
                   main_LOCATION_ALIAS, SERVICE_KEYS, gps_data, enqueued,
                   request_queue, result_queue, results, groups, moved, w_pc,
                   term_sent, cache_loaded, cache_at_stop>>
    /\ UNCHANGED worker_vars
    /\ UNCHANGED fn_vars
    /\ UNCHANGED twin_vars

\* A variant of group_add that keys the groups by the place name alone.
group_add_by_location(gs, r) ==
    IF \E i \in 1..Len(gs) : gs[i].location = r.location
    THEN [i \in 1..Len(gs) |->
            IF gs[i].location = r.location
            THEN [gs[i] EXCEPT !.files = Append(@, r.file)]
            ELSE gs[i]]
    ELSE Append(gs, [date |-> r.date, location |-> r.location,
                     files |-> <<r.file>>])

\* Lines 380-381: one result added to the groups (a dict keyed by the pair
\* (date, location), kept here in insertion order).
group_add(gs, r) ==
    IF \E i \in 1..Len(gs) : gs[i].date = r.date /\ gs[i].location = r.location
    THEN [i \in 1..Len(gs) |->
            IF gs[i].date = r.date /\ gs[i].location = r.location
            THEN [gs[i] EXCEPT !.files = Append(@, r.file)]
            ELSE gs[i]]
    ELSE Append(gs, [date |-> r.date, location |-> r.location,
                     files |-> <<r.file>>])

\* Lines 378-381: the groups of a list of results.
RECURSIVE group_results(_, _)
group_results(gs, rs) ==
    IF rs = <<>> THEN gs
    ELSE group_results(group_add(gs, Head(rs)), Tail(rs))

\* The files of all groups.
group_files(gs) ==
    UNION { { gs[i].files[j] : j \in 1..Len(gs[i].files) } : i \in 1..Len(gs) }

\* Line 384: the character class [\\/:"*?<>|] of the pattern.
ForbiddenChars == {"\\", "/", ":", "\"", "*", "?", "<", ">", "|"}

\* The longest prefix of forbidden characters removed.
RECURSIVE skip_forbidden(_)
skip_forbidden(s) ==
    IF s # <<>> /\ Head(s) \in ForbiddenChars THEN skip_forbidden(Tail(s)) ELSE s

\* A variant of re_sub that replaces one forbidden character at a time.
RECURSIVE re_sub_each(_)
re_sub_each(s) ==
    IF s = <<>> THEN <<>>
    ELSE IF Head(s) \in ForbiddenChars
         THEN <<"_">> \o re_sub_each(Tail(s))
         ELSE <<Head(s)>> \o re_sub_each(Tail(s))

\* Line 384: re.sub(r'[\\/:"*?<>|]+', "_", s): scanning from the left, every
\* match of the pattern (a longest run of forbidden characters) becomes "_".
RECURSIVE re_sub(_)
re_sub(s) ==
    IF s = <<>> THEN <<>>
    ELSE IF Head(s) \in ForbiddenChars
         THEN <<"_">> \o re_sub(skip_forbidden(Tail(s)))
         ELSE <<Head(s)>> \o re_sub(Tail(s))

\* Line 384: the folder name of the group (date, location).
folder_name(date, place) == re_sub(strip(date \o <<" ">> \o place))

\* folder_name, tabulated once for the dates of the media items and the place
\* names the providers and the cache files of the model give.
FolderNameTable ==
    [date \in {Date1, Date2},
     place \in { ProviderLocationTable[s, o] : s \in ServiceNames, o \in Outcomes }
               \cup UNION { { c[k] : k \in DOMAIN c } : c \in CacheFiles }
     |-> folder_name(date, place)]

\* Line 384 for one group: the tabulated name, or the name computed.
group_folder_name(g) ==
    IF <<g.date, g.location>> \in DOMAIN FolderNameTable
    THEN FolderNameTable[g.date, g.location]
    ELSE folder_name(g.date, g.location)

\* Lines 383-384 for every group, in the order of groups.items().
folder_names(gs) == [i \in 1..Len(gs) |-> group_folder_name(gs[i])]

\* A variant of files_to_move that moves the files whatever --dry-run says.
files_to_move_always(dry_run, gs) == group_files(gs)

\* Lines 385-394: the files handed to os.makedirs and shutil.move.
files_to_move(dry_run, gs) == IF dry_run THEN {} ELSE group_files(gs)

\* Lines 392-396: how the try block ends for one file: both calls return,
\* os.makedirs raises (nothing is created or moved), or shutil.move raises
\* (the directory exists, the file stays). The exception is caught and the
\* loop goes on with the next file.
MoveOutcomes == {"moved", "makedirs_raised", "move_raised"}

\* Lines 383-387: the folder (relative to the directory of the file) a file
\* of the groups is moved to.
target_dir(gs, file) ==
    group_folder_name(gs[CHOOSE i \in 1..Len(gs) :
                            \E j \in 1..Len(gs[i].files) : gs[i].files[j] = file])

\* Lines 377-396: the results are grouped and every file of every group is
\* moved into the folder of its group, unless --dry-run.
main_group_and_move ==
    /\ m_pc = "group"
    /\ groups' = group_results(<<>>, results)
    /\ folders' = folder_names(group_results(<<>>, results))
    /\ \E outcome \in [files_to_move(args.dry_run, group_results(<<>>, results))
                          -> MoveOutcomes] :
          /\ moved' = { f \in DOMAIN outcome : outcome[f] = "moved" }
          /\ move_failed' = { f \in DOMAIN outcome : outcome[f] # "moved" }
          /\ made_dirs' =
                { target_dir(group_results(<<>>, results), f) :
                    f \in { g \in DOMAIN outcome : outcome[g] # "makedirs_raised" } }
    /\ m_pc' = "terminate"
    /\ UNCHANGED <<args, extract_outcome,
                   cache_file, alias_file, keys_file, CACHE,
                   main_LOCATION_ALIAS, SERVICE_KEYS, gps_data, enqueued,
                   request_queue, result_queue, results, timed_out,
                   w_pc, term_sent, cache_loaded, cache_at_stop>>
    /\ UNCHANGED worker_vars
    /\ UNCHANGED fn_vars
    /\ UNCHANGED twin_vars

\* Line 400: worker.terminate() sends the signal; the process ends later.
main_terminate ==
    /\ m_pc = "terminate"
    /\ term_sent' = TRUE
    /\ m_pc' = "join"
    /\ UNCHANGED <<args, extract_outcome, folders, made_dirs, move_failed,
                   cache_file, alias_file, keys_file, CACHE,
                   main_LOCATION_ALIAS, SERVICE_KEYS, gps_data, enqueued,
                   request_queue, result_queue, results, timed_out, groups,
                   moved, w_pc, cache_loaded, cache_at_stop>>
    /\ UNCHANGED worker_vars
    /\ UNCHANGED fn_vars
    /\ UNCHANGED twin_vars

\* Line 401: worker.join() returns once the worker process has ended.
join_returns_at_once(w) == TRUE

join_returns(w) == w \in {"stopped", "crashed"}

main_join ==
    /\ m_pc = "join"
    /\ join_returns(w_pc)
    /\ m_pc' = "save_cache"
    /\ UNCHANGED <<args, extract_outcome, folders, made_dirs, move_failed,
                   cache_file, alias_file, keys_file, CACHE,
                   main_LOCATION_ALIAS, SERVICE_KEYS, gps_data, enqueued,
                   request_queue, result_queue, results, timed_out, groups,
                   moved, w_pc, term_sent, cache_loaded, cache_at_stop>>
    /\ UNCHANGED worker_vars
    /\ UNCHANGED fn_vars
    /\ UNCHANGED twin_vars

\* Line 402: save_json(CACHE, CACHE_LOC_FILE); the file is replaced at once.
main_save_cache ==
    /\ m_pc = "save_cache"
    /\ cache_file' = CACHE
    /\ m_pc' = "save_alias"
    /\ UNCHANGED <<args, extract_outcome, folders, made_dirs, move_failed,
                   alias_file, keys_file, CACHE, main_LOCATION_ALIAS,
                   SERVICE_KEYS, gps_data, enqueued, request_queue,
                   result_queue, results, timed_out, groups, moved, w_pc,
                   term_sent, cache_loaded, cache_at_stop>>
    /\ UNCHANGED worker_vars
    /\ UNCHANGED fn_vars
    /\ UNCHANGED twin_vars

\* Line 403: save_json(LOCATION_ALIAS, CACHE_ALIAS_FILE), main's local table.
main_save_alias ==
    /\ m_pc = "save_alias"
    /\ alias_file' = main_LOCATION_ALIAS
    /\ m_pc' = "save_keys"
    /\ UNCHANGED <<args, extract_outcome, folders, made_dirs, move_failed,
                   cache_file, keys_file, CACHE, main_LOCATION_ALIAS,
                   SERVICE_KEYS, gps_data, enqueued, request_queue,
                   result_queue, results, timed_out, groups, moved, w_pc,
                   term_sent, cache_loaded, cache_at_stop>>
    /\ UNCHANGED worker_vars
    /\ UNCHANGED fn_vars
    /\ UNCHANGED twin_vars

\* Line 404: save_json(SERVICE_KEYS, CACHE_KEYS_FILE).
main_save_keys ==
    /\ m_pc = "save_keys"
    /\ keys_file' = SERVICE_KEYS
    /\ m_pc' = "done"
    /\ UNCHANGED <<args, extract_outcome, folders, made_dirs, move_failed,
                   cache_file, alias_file, CACHE, main_LOCATION_ALIAS,
                   SERVICE_KEYS, gps_data, enqueued, request_queue,
                   result_queue, results, timed_out, groups, moved, w_pc,
                   term_sent, cache_loaded, cache_at_stop>>
    /\ UNCHANGED worker_vars
    /\ UNCHANGED fn_vars
    /\ UNCHANGED twin_vars

\* ------------------------------------------------------------------ worker
\* The worker process is running.
worker_alive == w_pc \in {"idle", "geocode", "request", "return", "publish"}

\* A variant of queue_get that takes the newest item.
queue_get_newest(q) == [item |-> q[Len(q)], rest |-> SubSeq(q, 1, Len(q) - 1)]

\* Line 254: Queue.get on a queue that is not empty: the oldest item, and the
\* queue without it.
queue_get(q) == [item |-> Head(q), rest |-> Tail(q)]

\* Lines 254 and 233-240: req_queue.get returns an item (an empty queue
\* raises Empty after the 1 second poll, and the loop continues without a
\* change of state) and the cache is consulted: a hit returns, a miss enters
\* reverse_geocode with the chain of the preferred service.
worker_get ==
    /\ w_pc = "idle"
    /\ request_queue # <<>>
    /\ cur' = queue_get(request_queue).item
    /\ request_queue' = queue_get(request_queue).rest
    /\ LET item == queue_get(request_queue).item
           key == cache_key(item.lat, item.lon)
       IN  /\ cur_hit' = (key \in DOMAIN CACHE)
           /\ IF key \in DOMAIN CACHE
              THEN LET hit == lookup_hit(CACHE, key, LOCATION_ALIAS,
                                         last_request_time)
                   IN  /\ location' = hit.location
                       /\ last_request_time' = hit.last_request_time
                       /\ raw' = CACHE[key]
                       /\ w_pc' = "publish"
              ELSE /\ w_pc' = "geocode"
                   /\ UNCHANGED <<location, last_request_time, raw>>
    /\ UNCHANGED <<svc_idx, last_location, attempted, first_best, all_failed, clock,
                   last_acq>>
    /\ UNCHANGED <<CACHE, result_queue, term_sent, cache_at_stop>>
    /\ UNCHANGED main_vars
    /\ UNCHANGED fn_vars
    /\ UNCHANGED twin_vars

\* Lines 155-161: an iteration of the provider loop begins. The rate limiter
\* is acquired d ticks after the previous clock reading (with the sleep that
\* keeps two acquisitions a second apart); the request of lines 163-175
\* follows.
worker_acquire ==
    /\ w_pc = "geocode"
    /\ \E d \in 0..MaxDelay :
        LET t == acquire(clock + d, last_request_time)
        IN  /\ last_request_time' = t
            /\ clock' = t
            /\ last_acq' = t
    /\ attempted' = Append(attempted, SERVICES[args.service][svc_idx])
    /\ w_pc' = "request"
    /\ UNCHANGED <<cur, cur_hit, svc_idx, last_location, location, raw,
                   first_best, all_failed>>
    /\ UNCHANGED <<CACHE, request_queue, result_queue, term_sent, cache_at_stop>>
    /\ UNCHANGED main_vars
    /\ UNCHANGED fn_vars
    /\ UNCHANGED twin_vars

\* Lines 163-221: requests.get, which has no timeout, returns or raises: the
\* request gives outcome o and the candidate is scored. Until then the worker
\* holds the acquired limiter slot with its request pending.
worker_request ==
    /\ w_pc = "request"
    /\ \E o \in Outcomes :
        LET services == SERVICES[args.service]
            service == services[svc_idx]
            candidate == ProviderLocationTable[service, o]
            break == o.kind # "http_error" /\ stop_early(candidate)
        IN  /\ all_failed' = (all_failed /\ o.kind # "ok")
            /\ IF o.kind = "http_error"
               THEN UNCHANGED <<last_location, first_best>>
               ELSE /\ last_location' = score_update(last_location, candidate)
                    /\ first_best' = IF first_best = None
                                        \/ count_commas(candidate)
                                             > count_commas(first_best)
                                     THEN candidate
                                     ELSE first_best
            /\ IF break \/ svc_idx = Len(services)
               THEN w_pc' = "return" /\ UNCHANGED svc_idx
               ELSE w_pc' = "geocode" /\ svc_idx' = svc_idx + 1
    /\ UNCHANGED <<cur, cur_hit, location, raw, last_request_time, clock,
                   attempted, last_acq>>
    /\ UNCHANGED <<CACHE, request_queue, result_queue, term_sent, cache_at_stop>>
    /\ UNCHANGED main_vars
    /\ UNCHANGED fn_vars
    /\ UNCHANGED twin_vars

\* Lines 225-228 and 240-247: reverse_geocode returns to
\* lookup_location_cached, which stores the name; an exception raised there is
\* caught nowhere and ends the worker process.
worker_return ==
    /\ w_pc = "return"
    /\ LET r == lookup_miss(last_location, LOCATION_ALIAS, CACHE,
                            cache_key(cur.lat, cur.lon))
       IN  IF r.raised
           THEN /\ w_pc' = "crashed"
                /\ cache_at_stop' = CACHE
                /\ UNCHANGED <<CACHE, location, raw>>
           ELSE /\ w_pc' = "publish"
                /\ CACHE' = r.cache
                /\ location' = r.location
                /\ raw' = last_location
                /\ UNCHANGED cache_at_stop
    /\ UNCHANGED <<cur, cur_hit, svc_idx, last_location, last_request_time,
                   clock, attempted, first_best, all_failed, last_acq>>
    /\ UNCHANGED <<request_queue, result_queue, term_sent>>
    /\ UNCHANGED main_vars
    /\ UNCHANGED fn_vars
    /\ UNCHANGED twin_vars

\* Lines 258-259: the result is put on res_queue (its timestamp, which
\* nothing reads, is left out) and the calls' locals go out of scope.
worker_publish ==
    /\ w_pc = "publish"
    /\ result_queue' = Append(result_queue,
                              [file |-> cur.file, lat |-> cur.lat,
                               lon |-> cur.lon, date |-> cur.date,
                               location |-> location])
    /\ w_pc' = "idle"
    /\ cur' = NoItem
    /\ cur_hit' = FALSE
    /\ svc_idx' = 1
    /\ last_location' = None
    /\ location' = None
    /\ raw' = None
    /\ attempted' = <<>>
    /\ first_best' = None
    /\ all_failed' = TRUE
    /\ UNCHANGED <<last_request_time, clock, last_acq>>
    /\ UNCHANGED <<CACHE, request_queue, term_sent, cache_at_stop>>
    /\ UNCHANGED main_vars
    /\ UNCHANGED fn_vars
    /\ UNCHANGED twin_vars

\* The terminate signal of line 400 ends the worker process, wherever it is;
\* what the process held in memory is gone.
worker_killed ==
    /\ term_sent
    /\ worker_alive
    /\ w_pc' = "stopped"
    /\ cache_at_stop' = CACHE
    /\ cur' = NoItem
    /\ cur_hit' = FALSE
    /\ svc_idx' = 1
    /\ last_location' = None
    /\ location' = None
    /\ raw' = None
    /\ attempted' = <<>>
    /\ first_best' = None
    /\ all_failed' = TRUE
    /\ last_request_time' = 0
    /\ clock' = StartTime
    /\ last_acq' = 0
    /\ UNCHANGED <<CACHE, request_queue, result_queue, term_sent>>
    /\ UNCHANGED main_vars
    /\ UNCHANGED fn_vars
    /\ UNCHANGED twin_vars

Next ==
    \/ main_clean_cache
    \/ main_load
    \/ main_key_args
    \/ main_alias_args
    \/ main_start_worker
    \/ main_extract
    \/ main_enqueue
    \/ main_collect_result
    \/ main_collect_timeout
    \/ main_group_and_move
    \/ main_terminate
    \/ main_join
    \/ main_save_cache
    \/ main_save_alias
    \/ main_save_keys
    \/ worker_get
    \/ worker_acquire
    \/ worker_request
    \/ worker_return
    \/ worker_publish
    \/ worker_killed

Spec == Init /\ [][Next]_vars

\* A step of the main process.
main_step ==
    \/ main_clean_cache
    \/ main_load
    \/ main_key_args
    \/ main_alias_args
    \/ main_start_worker
    \/ main_extract
    \/ main_enqueue
    \/ main_collect_result
    \/ main_collect_timeout
    \/ main_group_and_move
    \/ main_terminate
    \/ main_join
    \/ main_save_cache
    \/ main_save_alias
    \/ main_save_keys

\* The scheduling the code relies on: the main process keeps running (a wait
\* on the result queue returns a result or raises Empty after 10 seconds, and
\* join returns once the worker process has ended), and the terminate signal
\* of line 400 ends the worker. Nothing is assumed about the worker's own
\* steps: it may stop answering at any point. The runs are those of one
\* command line, started with a cache file that holds an entry.
FairInit ==
    /\ Init
    /\ args.service = "Nominatim"
    /\ cache_file # EmptyDict

FairSpec ==
    FairInit /\ [][Next]_vars /\ WF_vars(main_step) /\ WF_vars(worker_killed)

\* ------------------------------------------------- grouping on its own
\* Runs in which every media item is resolved from the cache file: the
\* worker makes no provider request, and the place names of the results are
\* the names an earlier run left in the file.

\* The cache file of these runs, one entry per coordinate: a name with a run
\* of characters a folder name cannot hold, a name as a provider gives it, a
\* name with one such character, and a name that ends with a blank and a tab.
GroupCacheFile ==
    (cache_key(12341, -12344) :> <<"a",":","/","b">>)
    @@ (cache_key(12346, -12344) :> <<"A","b",","," ","P","T">>)
    @@ (cache_key(22341, -12344) :> <<"a","/","b">>)
    @@ (cache_key(22346, -12344) :> <<"A","b"," ","\t">>)

\* Coordinates (units of 10^-5 degree) and dates of the media items of these
\* runs; every coordinate has an entry in the cache file.
GroupItemData ==
    { [lat |-> lat, lon |-> -12344, date |-> date] :
        lat \in {12341, 12346, 22341, 22346}, date \in {Date1, Date2} }

\* The lists extract_coordinates_and_dates returns in these runs.
GroupGpsData ==
    UNION { { [i \in 1..n |-> [file |-> FileNames[i], lat |-> d[i].lat,
                                lon |-> d[i].lon, date |-> d[i].date]] :
              d \in [1..n -> GroupItemData] } : n \in 1..MaxItems }

\* The item a result was computed from.
item_of(r) == [file |-> r.file, lat |-> r.lat, lon |-> r.lon, date |-> r.date]

\* Lines 233-239 and 256-259: the result the worker publishes for an item
\* whose key is in the cache.
result_of_hit(item, cache) ==
    [file |-> item.file, lat |-> item.lat, lon |-> item.lon, date |-> item.date,
     location |-> lookup_hit(cache, cache_key(item.lat, item.lon),
                             LOCATION_ALIAS, 0).location]

\* Main at line 377 in such a run: the cache file was kept (no
\* --clean-cache) and loaded, the -k and -a directives were applied, every
\* item was enqueued, hit the cache and had its result received; the worker,
\* which never acquired the rate limiter, waits for the next request.
GroupInit ==
    /\ args \in { c \in CommandLines : ~c.clean_cache }
    /\ cache_file = GroupCacheFile
    /\ alias_file \in AliasFiles
    /\ keys_file = EmptyDict
    /\ m_pc = "group"
    /\ CACHE = cache_file
    /\ main_LOCATION_ALIAS = alias_directives(alias_file, args.alias)
    /\ SERVICE_KEYS = key_directives(dict_update(DefaultServiceKeys, keys_file),
                                     args.key)
    /\ gps_data \in GroupGpsData
    /\ results = [i \in 1..Len(gps_data) |-> result_of_hit(gps_data[i], CACHE)]
    /\ enqueued = Len(gps_data)
    /\ request_queue = <<>>
    /\ result_queue = <<>>
    /\ timed_out = FALSE
    /\ groups = <<>>
    /\ moved = {}
    /\ w_pc = "idle"
    /\ term_sent = FALSE
    /\ cur = NoItem
    /\ cur_hit = FALSE
    /\ svc_idx = 1
    /\ last_location = None
    /\ location = None
    /\ raw = None
    /\ last_request_time = 0
    /\ clock = StartTime
    /\ attempted = <<>>
    /\ first_best = None
    /\ all_failed = TRUE
    /\ last_acq = 0
    /\ cache_loaded = cache_file
    /\ cache_at_stop = EmptyDict
    /\ extract_outcome = "ok"
    /\ folders = <<>>
    /\ made_dirs = {}
    /\ move_failed = {}
    /\ fn_in = NoCall
    /\ fn_out = None
    /\ one_run

GroupNext == main_group_and_move

GroupSpec == GroupInit /\ [][GroupNext]_vars

\* ------------------------------------------------ functions on their own
\* The values of --precision (lines 273-278; the default is 4).
Precisions == {2, 3, 4, 5}

\* The GPSLatitude strings of exiftool, by the groups of the pattern of
\* line 43: 0 deg 0' 0" N and S, 0 deg 0' 18" N (0.005, a half of the second
\* decimal), 38 deg 44' 12" N and 38 deg 44' 13" N.
LatStrings ==
    { [degrees |-> 0, minutes |-> 0, seconds |-> 0, direction |-> "N"],
      [degrees |-> 0, minutes |-> 0, seconds |-> 0, direction |-> "S"],
      [degrees |-> 0, minutes |-> 0, seconds |-> 18, direction |-> "N"],
      [degrees |-> 38, minutes |-> 44, seconds |-> 12, direction |-> "N"],
      [degrees |-> 38, minutes |-> 44, seconds |-> 13, direction |-> "N"] }

\* The GPSLongitude strings: 9 deg 8' 21" W and 0 deg 0' 0" E.
LonStrings ==
    { [degrees |-> 9, minutes |-> 8, seconds |-> 21, direction |-> "W"],
      [degrees |-> 0, minutes |-> 0, seconds |-> 0, direction |-> "E"] }

\* A media file with GPS strings, and the --precision of the run that reads it.
FilesRead ==
    [lat_str : LatStrings, lon_str : LonStrings, precision : Precisions]

\* Two media files, each read by a run with its own --precision.
KeyCalls == [kind : {"cache_key"}, a : FilesRead, b : FilesRead]

\* The address fields of the answers of a provider: every field absent or
\* present.
FieldResponses ==
    { Resp(road, suburb, city, town, village, state, cc) :
        road \in {<<>>, <<"R","d">>}, suburb \in {<<>>, <<"S","b">>},
        city \in {<<>>, <<"A","b">>}, town \in {<<>>, <<"T","n">>},
        village \in {<<>>, <<"V","l">>}, state \in {<<>>, <<"S","t">>},
        cc \in {<<>>, <<"p","t">>} }

\* A provider and its parsed answer.
ProviderCalls == [kind : {"provider"}, service : ServiceNames, data : FieldResponses]

\* The program at its start, and a function about to be applied.
FnInit ==
    /\ args = [service |-> "Nominatim", dry_run |-> TRUE, clean_cache |-> FALSE,
               key |-> <<>>, alias |-> <<>>]
    /\ cache_file = EmptyDict
    /\ alias_file = EmptyDict
    /\ nothing_done
    /\ fn_in \in KeyCalls \cup ProviderCalls
    /\ fn_out = None
    /\ one_run

\* Lines 96-97 and 233: the cache keys under which the names of the two
\* files are looked up and stored.
apply_file_cache_key ==
    /\ fn_in.kind = "cache_key"
    /\ fn_out = None
    /\ fn_out' = <<file_cache_key(fn_in.a.lat_str, fn_in.a.lon_str,
                                  fn_in.a.precision),
                   file_cache_key(fn_in.b.lat_str, fn_in.b.lon_str,
                                  fn_in.b.precision)>>
    /\ UNCHANGED fn_in
    /\ UNCHANGED <<CACHE, request_queue, result_queue, w_pc, term_sent,
                   cache_at_stop>>
    /\ UNCHANGED main_vars
    /\ UNCHANGED worker_vars
    /\ UNCHANGED twin_vars

\* Lines 182-209: the candidate name built from a provider's parsed answer.
apply_provider_location ==
    /\ fn_in.kind = "provider"
    /\ fn_out = None
    /\ fn_out' = provider_location(fn_in.service,
                                   [kind |-> "ok", data |-> fn_in.data])
    /\ UNCHANGED fn_in
    /\ UNCHANGED <<CACHE, request_queue, result_queue, w_pc, term_sent,
                   cache_at_stop>>
    /\ UNCHANGED main_vars
    /\ UNCHANGED worker_vars
    /\ UNCHANGED twin_vars

FnNext ==
    \/ apply_file_cache_key
    \/ apply_provider_location

FnSpec == FnInit /\ [][FnNext]_vars

\* ------------------------------------------------ two runs side by side
\* Two runs of the program on the same files and the same command line but
\* for --dry-run, one with the option and one without, under the same
\* scheduling and the same outcomes of the extraction, the clock and the
\* providers. The variables of the program hold one of the runs; the other is
\* kept in twin_other. A run takes a step, the runs change places, the other
\* run takes the same step, and the runs change places again.

\* The state of the run the variables of the program hold.
run_state ==
    [args |-> args, cache_file |-> cache_file, alias_file |-> alias_file,
     keys_file |-> keys_file, m_pc |-> m_pc, CACHE |-> CACHE,
     main_LOCATION_ALIAS |-> main_LOCATION_ALIAS,
     SERVICE_KEYS |-> SERVICE_KEYS, gps_data |-> gps_data,
     enqueued |-> enqueued, request_queue |-> request_queue,
     result_queue |-> result_queue, results |-> results,
     timed_out |-> timed_out, groups |-> groups, moved |-> moved,
     w_pc |-> w_pc, term_sent |-> term_sent, cur |-> cur,
     cur_hit |-> cur_hit, svc_idx |-> svc_idx,
     last_location |-> last_location, location |-> location, raw |-> raw,
     last_request_time |-> last_request_time, clock |-> clock,
     attempted |-> attempted, first_best |-> first_best,
     all_failed |-> all_failed, last_acq |-> last_acq,
     cache_loaded |-> cache_loaded, cache_at_stop |-> cache_at_stop,
     extract_outcome |-> extract_outcome, folders |-> folders,
     made_dirs |-> made_dirs, move_failed |-> move_failed]

\* What a step from state pre to state post was: which process moved from
\* where to where, and what came from outside the program: the outcome of the
\* extraction and the items it returned, the clock reading of the limiter,
\* whether the request was answered and the candidate it gave (first_best
\* takes every candidate that changes the best one), the timeout of the wait
\* for a result. How a move ended is no part of it: a dry run moves nothing.
step_of(pre, post) ==
    [m_pc |-> <<pre.m_pc, post.m_pc>>,
     w_pc |-> <<pre.w_pc, post.w_pc>>,
     enqueued |-> post.enqueued,
     received |-> Len(post.results),
     extract_outcome |-> post.extract_outcome,
     gps_data |-> post.gps_data,
     clock |-> post.clock,
     all_failed |-> post.all_failed,
     first_best |-> post.first_best,
     timed_out |-> post.timed_out,
     term_sent |-> post.term_sent]

\* The command lines of CommandLines, each with and without --dry-run.
PairCommandLines ==
    { [c EXCEPT !.dry_run = d] : c \in CommandLines, d \in BOOLEAN }

\* Both runs are about to enter main; the other run has the command line
\* with --dry-run the other way.
PairInit ==
    /\ args \in PairCommandLines
    /\ cache_file \in CacheFiles \ {EmptyDict}
    /\ alias_file \in AliasFiles
    /\ nothing_done
    /\ fn_in = NoCall
    /\ fn_out = None
    /\ twin_other = [run_state EXCEPT !.args.dry_run = ~@]
    /\ twin_base = run_state
    /\ twin_step = NoTwin

\* The run the variables hold has not moved since the runs changed places.
pair_at_base == run_state = twin_base

\* The run takes a step of the program: any step when it goes first, the
\* step the other run took when it goes second.
PairStep ==
    /\ pair_at_base
    /\ Next
    /\ Len(gps_data') <= PairMaxItems
    /\ twin_step # NoTwin => step_of(run_state, run_state') = twin_step

\* The runs change places. After the first run's step the step is kept for
\* the second run; after the second run's step nothing is kept.
PairSwap ==
    /\ ~pair_at_base
    /\ args' = twin_other.args
    /\ cache_file' = twin_other.cache_file
    /\ alias_file' = twin_other.alias_file
    /\ keys_file' = twin_other.keys_file
    /\ m_pc' = twin_other.m_pc
    /\ CACHE' = twin_other.CACHE
    /\ main_LOCATION_ALIAS' = twin_other.main_LOCATION_ALIAS
    /\ SERVICE_KEYS' = twin_other.SERVICE_KEYS
    /\ gps_data' = twin_other.gps_data
    /\ enqueued' = twin_other.enqueued
    /\ request_queue' = twin_other.request_queue
    /\ result_queue' = twin_other.result_queue
    /\ results' = twin_other.results
    /\ timed_out' = twin_other.timed_out
    /\ groups' = twin_other.groups
    /\ moved' = twin_other.moved
    /\ w_pc' = twin_other.w_pc
    /\ term_sent' = twin_other.term_sent
    /\ cur' = twin_other.cur
    /\ cur_hit' = twin_other.cur_hit
    /\ svc_idx' = twin_other.svc_idx
    /\ last_location' = twin_other.last_location
    /\ location' = twin_other.location
    /\ raw' = twin_other.raw
    /\ last_request_time' = twin_other.last_request_time
    /\ clock' = twin_other.clock
    /\ attempted' = twin_other.attempted
    /\ first_best' = twin_other.first_best
    /\ all_failed' = twin_other.all_failed
    /\ last_acq' = twin_other.last_acq
    /\ cache_loaded' = twin_other.cache_loaded
    /\ cache_at_stop' = twin_other.cache_at_stop
    /\ extract_outcome' = twin_other.extract_outcome
    /\ folders' = twin_other.folders
    /\ made_dirs' = twin_other.made_dirs
    /\ move_failed' = twin_other.move_failed
    /\ twin_other' = run_state
    /\ twin_base' = twin_other
    /\ twin_step' = IF twin_step = NoTwin THEN step_of(twin_base, run_state)
                                          ELSE NoTwin
    /\ UNCHANGED fn_vars

PairNext ==
    \/ PairStep
    \/ PairSwap

PairSpec == PairInit /\ [][PairNext]_vars

\* ------------------------------------------------------------------ claims
\* The files whose results main has received.
result_files == { results[i].file : i \in 1..Len(results) }

\* The files of the enqueued items.
item_files == { gps_data[i].file : i \in 1..Len(gps_data) }

\* main is past worker.join().
after_join == m_pc \in {"save_cache", "save_alias", "save_keys", "done"}

\* main is past the save of the cache.
cache_flushed == m_pc \in {"save_alias", "save_keys", "done"}

\* C1: when every provider of the chain failed (exception or HTTP error on all
\* three) for a coordinate that is not in the cache, the resolution ends with
\* the worker about to publish the name "Unknown Location" for the item.
C1_AllFailedGivesUnknown ==
    (Len(attempted) = 3 /\ all_failed /\ w_pc \notin {"request", "return"})
        => (w_pc = "publish" /\ location = UnknownLocation)

\* C2: as long as main has not called terminate, a started worker is alive,
\* idle or resolving an item, whatever the providers answered.
C2_WorkerSurvivesProviders ==
    (w_pc # "not_started" /\ ~term_sent) => worker_alive

\* C3: no entry the run adds to the cache has the value "Unknown Location",
\* and neither has any entry the flushed cache file gained.
C3_UnknownNeverCached ==
    /\ \A k \in DOMAIN CACHE \ DOMAIN cache_loaded : CACHE[k] # UnknownLocation
    /\ cache_flushed =>
         \A k \in DOMAIN cache_file \ DOMAIN cache_loaded :
             cache_file[k] # UnknownLocation

\* C3 witness: the run is over and the flushed cache holds an entry that the
\* worker added after a fresh lookup.
C3_Witness ==
    /\ m_pc = "done"
    /\ DOMAIN cache_file # DOMAIN cache_loaded

\* C4: from the step that picks up an item whose key is in the cache until its
\* result is published, no provider is attempted, the rate limiter is not
\* acquired and last_request_time keeps its value.
C4_HitCallsNoProvider ==
    [][((cur_hit \/ cur_hit') /\ w_pc' # "stopped")
          => /\ attempted' = attempted
             /\ last_acq' = last_acq
             /\ last_request_time' = last_request_time]_vars

\* C4 witness: a cache hit about to be published, after an earlier item of the
\* run went to the providers.
C4_Witness ==
    /\ cur_hit
    /\ w_pc = "publish"
    /\ last_request_time > 0

\* C5: every rate limiter acquisition completes at least one second after the
\* one before it, within a resolution and from one item to the next.
C5_AcquisitionsOneSecondApart ==
    [][Len(attempted') > Len(attempted)
          => last_acq' - last_acq >= TicksPerSecond]_vars

\* C5 witness: the first item missed the cache and was answered, the second
\* item hit the entry it left, and the third item, of another key, has made
\* the next acquisition.
C5_Witness ==
    /\ Len(gps_data) = 3
    /\ gps_data[1].lat = gps_data[2].lat
    /\ cache_key(gps_data[1].lat, gps_data[1].lon) \notin DOMAIN cache_loaded
    /\ cur = gps_data[3]
    /\ gps_data[3].lat # gps_data[1].lat
    /\ Len(results) + Len(result_queue) = 2
    /\ Len(attempted) >= 1

\* C6: a provider is attempted only as the next one of the preferred
\* service's chain, and only while no candidate obtained for the coordinate
\* has 3 commas or more.
C6_ChainOrderAndEarlyStop ==
    [][Len(attempted') > Len(attempted)
          => /\ attempted' = SubSeq(SERVICES[args.service], 1, Len(attempted) + 1)
             /\ first_best = None \/ count_commas(first_best) < GoodEnough]_vars

\* C6 witness: the loop was left before the chain was exhausted, on a
\* candidate with 3 commas.
C6_Witness ==
    /\ w_pc = "return"
    /\ Len(attempted) < 3
    /\ first_best # None
    /\ count_commas(first_best) >= GoodEnough

\* C7: a resolution that obtained candidates returns the earliest of the
\* candidates with the highest comma count, also when that count is 0.
C7_ReturnsBestCandidate ==
    (w_pc \in {"publish", "crashed"} /\ ~cur_hit /\ first_best # None)
        => (w_pc = "publish" /\ raw = first_best)

\* C8: when the raw name of a resolved item equals, ignoring case, the source
\* of an alias of the alias file or of an alias directive, the place name to
\* publish is that alias's destination.
C8_AliasApplied ==
    (w_pc = "publish" /\ lower(raw) \in DOMAIN main_LOCATION_ALIAS)
        => location = main_LOCATION_ALIAS[lower(raw)]

\* C9: once main is past join the worker has ended and the cache is the one
\* it left, and that is the document the flush writes.
C9_FlushAfterWorkerStopped ==
    /\ after_join => /\ w_pc \in {"stopped", "crashed"}
                     /\ CACHE = cache_at_stop
    /\ cache_flushed => cache_file = cache_at_stop

\* C9 witness: the run is over, the worker was terminated, and the flushed
\* cache holds what the worker added.
C9_Witness ==
    /\ m_pc = "done"
    /\ w_pc = "stopped"
    /\ cache_file # cache_loaded

\* C10: after a wait timed out with items unanswered, main goes on: it groups
\* the results it has and hands exactly their files to the move (none under
\* --dry-run; a file whose move raised stays), moves no file without a
\* result, and ends with the worker stopped and the three documents flushed.
C10_PartialResults ==
    timed_out =>
        /\ m_pc \in {"group", "terminate", "join", "save_cache", "save_alias",
                     "save_keys", "done"}
        /\ Len(results) < Len(gps_data)
        /\ m_pc # "group" =>
             /\ group_files(groups) = result_files
             /\ moved \cup move_failed = IF args.dry_run THEN {} ELSE result_files
             /\ moved \cap move_failed = {}
             /\ (item_files \ result_files) \cap moved = {}
        /\ m_pc = "done" =>
             /\ term_sent
             /\ ~worker_alive
             /\ cache_file = CACHE
             /\ alias_file = main_LOCATION_ALIAS
             /\ keys_file = SERVICE_KEYS

\* C10 witness: a run that timed out with one of several results received,
\* moved that file and finished.
C10_Witness ==
    /\ timed_out
    /\ m_pc = "done"
    /\ ~args.dry_run
    /\ Len(results) >= 1
    /\ moved = result_files
    /\ item_files \ result_files # {}

\* Main has left the grouping and moving of lines 377-396.
grouped == m_pc \in {"terminate", "join", "save_cache", "save_alias",
                     "save_keys", "done"}

\* The files of group i, as a set.
files_in(i) == { groups[i].files[j] : j \in 1..Len(groups[i].files) }

\* C11: grouping is a partition by the exact pair (date, place name): every
\* received result is in exactly one group, two results are in the same group
\* if and only if they have the same date and the same place name, and the
\* files of a group are in the order in which their results were received.
C11_GroupingIsPartition ==
    grouped =>
        /\ \A k \in 1..Len(results) :
              Cardinality({ i \in 1..Len(groups) : results[k].file \in files_in(i) }) = 1
        /\ \A k1, k2 \in 1..Len(results) :
              (\E i \in 1..Len(groups) :
                   {results[k1].file, results[k2].file} \subseteq files_in(i))
              <=> (/\ results[k1].date = results[k2].date
                   /\ results[k1].location = results[k2].location)
        /\ \A i \in 1..Len(groups) :
              LET sel == SelectSeq(results, LAMBDA r : r.file \in files_in(i))
              IN  groups[i].files = [j \in 1..Len(sel) |-> sel[j].file]

\* Three results were grouped into two groups: one place name on two dates,
\* and two results of the same date and place.
C11_Witness ==
    /\ grouped
    /\ Len(results) = 3
    /\ Len(groups) = 2
    /\ groups[1].location = groups[2].location
    /\ groups[1].date # groups[2].date

\* The trimmed string date + " " + place name of group i.
trimmed_name(i) == strip(groups[i].date \o <<" ">> \o groups[i].location)

\* The positions of a string that start a run of forbidden characters or hold
\* another character.
run_starts(t) ==
    SelectSeq([k \in 1..Len(t) |-> k],
              LAMBDA k : ~(t[k] \in ForbiddenChars /\ k > 1
                           /\ t[k - 1] \in ForbiddenChars))

\* C12 as stated: the folder name of a group is the trimmed string
\* date + " " + place name with every single forbidden character replaced by
\* one "_", all other characters unchanged.
C12_OneUnderscorePerCharacter ==
    grouped =>
        \A i \in 1..Len(groups) :
            folders[i] = [k \in 1..Len(trimmed_name(i)) |->
                            IF trimmed_name(i)[k] \in ForbiddenChars THEN "_"
                            ELSE trimmed_name(i)[k]]

\* C12, amended: the folder name of a group is the trimmed string
\* date + " " + place name with every maximal run of consecutive forbidden
\* characters replaced by one "_", all other characters unchanged, so the
\* folder name contains none of these characters.
C12_OneUnderscorePerRun ==
    grouped =>
        \A i \in 1..Len(groups) :
            LET t == trimmed_name(i)
                at == run_starts(t)
            IN  /\ folders[i] = [k \in 1..Len(at) |->
                                    IF t[at[k]] \in ForbiddenChars THEN "_"
                                    ELSE t[at[k]]]
                /\ \A k \in 1..Len(folders[i]) : folders[i][k] \notin ForbiddenChars

\* A group whose place name holds two forbidden characters in a row, and a
\* group whose place name ends with a blank and a tab, got their folder names.
C12_Witness ==
    /\ grouped
    /\ \E i \in 1..Len(groups) :
          /\ \E k \in 1..(Len(trimmed_name(i)) - 1) :
                {trimmed_name(i)[k], trimmed_name(i)[k + 1]} \subseteq ForbiddenChars
          /\ Len(folders[i]) < Len(trimmed_name(i))
    /\ \E i \in 1..Len(groups) :
          Len(trimmed_name(i)) + 2 = Len(groups[i].date) + 1 + Len(groups[i].location)

\* n / d rounded to the nearest integer, an exact half to the even neighbour.
round_div(n, d) ==
    LET q == n \div d
        r == n % d
    IN  IF 2 * r < d THEN q
        ELSE IF 2 * r > d THEN q + 1
        ELSE IF q % 2 = 0 THEN q ELSE q + 1

\* The coordinate of an exiftool string in units of 10^-4 degree, rounded
\* (no string of whole seconds denotes a half of the fourth decimal); north
\* and east are positive.
at_4_decimals(gps_str) ==
    LET m == gps_str.degrees * 10000
             + round_div((gps_str.minutes * 60 + gps_str.seconds) * 10000, 3600)
    IN  IF gps_str.direction \in {"S", "W"} THEN 0 - m ELSE m

\* C13: the cache key of a media file is derived from its coordinate rounded
\* to exactly 4 decimal places and does not depend on --precision: two files
\* whose coordinates round identically at 4 decimals (the same file read with
\* two precision settings among them) use the same cache key.
C13_KeyIndependentOfPrecision ==
    (/\ fn_in.kind = "cache_key"
     /\ fn_out # None
     /\ at_4_decimals(fn_in.a.lat_str) = at_4_decimals(fn_in.b.lat_str)
     /\ at_4_decimals(fn_in.a.lon_str) = at_4_decimals(fn_in.b.lon_str))
    => fn_out[1] = fn_out[2]

\* Both runs have taken the same steps.
pair_in_step == pair_at_base /\ twin_step = NoTwin

\* The other run is to take the step this run took.
pair_to_follow == pair_at_base /\ twin_step # NoTwin

\* What --dry-run may change: the option itself and what the moves did.
MoveEffects == {"args", "moved", "made_dirs", "move_failed"}

\* The two runs differ in --dry-run and in nothing else but the effects of
\* the moves.
same_but_moves(a, b) ==
    /\ a.args = [b.args EXCEPT !.dry_run = ~@]
    /\ \A v \in DOMAIN a \ MoveEffects : a[v] = b[v]

\* C14: in a dry run no file is moved, no move is tried and no directory is
\* created, while resolution is performed and persisted exactly as in a
\* normal run: of two runs on the same files that differ only in --dry-run,
\* each can take every step the other takes under the same scheduling and
\* the same extraction, clock and provider outcomes, and after the same steps
\* the two runs agree on everything but the moves, so that the cache, the
\* flushed cache, alias and key documents, the results, the groups and the
\* folder names are the same with and without --dry-run. A normal run tries
\* to move exactly the files of the received results.
C14_DryRunOnlySuppressesMoves ==
    /\ args.dry_run => moved = {} /\ made_dirs = {} /\ move_failed = {}
    /\ (~args.dry_run /\ grouped) => moved \cup move_failed = result_files
    /\ pair_to_follow => ENABLED PairStep
    /\ pair_in_step => same_but_moves(run_state, twin_other)
    /\ (pair_in_step /\ m_pc = "done") =>
          /\ CACHE = twin_other.CACHE
          /\ cache_file = twin_other.cache_file
          /\ alias_file = twin_other.alias_file
          /\ keys_file = twin_other.keys_file
          /\ cache_file = cache_at_stop
          /\ alias_file = main_LOCATION_ALIAS
          /\ keys_file = SERVICE_KEYS

\* A normal run and a dry run of the same command line ended after the same
\* steps: results were received and grouped, the flushed cache of both holds
\* a name resolved in the run, the normal run moved a file and the dry run
\* none.
C14_Witness ==
    /\ pair_in_step
    /\ ~args.dry_run
    /\ twin_other.args.dry_run
    /\ m_pc = "done"
    /\ twin_other.m_pc = "done"
    /\ results # <<>>
    /\ folders # <<>>
    /\ cache_file # cache_loaded
    /\ twin_other.cache_file = cache_file
    /\ moved # {}
    /\ twin_other.moved = {}


\* C15: a failure of the metadata extraction subprocess, a non-zero exit or
\* output that cannot be parsed, is not fatal: it is treated as zero
\* extracted items and main goes on to the shutdown.
C15_ExtractionFailureNotFatal ==
    extract_outcome \in {"exit_nonzero", "unparsable"} =>
        /\ gps_data = <<>>
        /\ m_pc \in {"terminate", "join", "save_cache", "save_alias",
                     "save_keys", "done"}

\* C16: the alias table is final before the worker can read it: every step
\* that adds, changes or removes an alias entry is taken while the worker is
\* not started and nothing is enqueued, so the table does not change between
\* the first enqueue and the flush at shutdown.
C16_AliasFinalBeforeWorker ==
    [][main_LOCATION_ALIAS' # main_LOCATION_ALIAS =>
          /\ w_pc = "not_started"
          /\ enqueued = 0
          /\ request_queue = <<>>
          /\ m_pc \in {"load", "alias_args"}]_vars

\* The table holds the entry of the alias file and the entry of an -a
\* directive, the worker runs and items are enqueued.
C16_Witness ==
    /\ Cardinality(DOMAIN main_LOCATION_ALIAS) = 2
    /\ worker_alive
    /\ enqueued > 0

\* C17: every run that has its items terminates: the collection loop ends
\* only after as many results as enqueued items or a wait that timed out, and
\* once main has enqueued its items it always reaches the end of the flush of
\* the persisted documents (after terminate and join), whatever the worker
\* does.
C17_RunTerminates ==
    /\ [](grouped => (Len(results) = enqueued \/ timed_out))
    /\ (m_pc = "collect") ~> (m_pc = "done" /\ term_sent /\ w_pc \in {"stopped", "crashed"})

\* A run ended although the worker never published a result for the last
\* item: the wait timed out and the shutdown followed.
C17_Witness ==
    /\ m_pc = "done"
    /\ timed_out
    /\ Len(results) < enqueued
    /\ w_pc = "stopped"

\* C18: for each of the three providers, the candidate name built from a
\* successful response is the list of its non-empty fields road, suburb, city
\* (town when city is empty, village when town is empty too), state and
\* upper-cased country code, in this order, joined with ", ".
C18_CommonCandidateName ==
    (fn_in.kind = "provider" /\ fn_out # None) =>
        LET d == fn_in.data
            place == IF d.city # <<>> THEN d.city
                     ELSE IF d.town # <<>> THEN d.town ELSE d.village
            parts == SelectSeq(<<d.road, d.suburb, place, d.state,
                                 upper(d.country_code)>>,
                               LAMBDA f : f # <<>>)
        IN  fn_out = join(parts)

\* C19: between the load at startup and the flush at shutdown the cache only
\* grows and only the worker changes it: a step that changes the cache is the
\* worker's return from a miss, it adds one entry for a key that was absent,
\* with a name other than "Unknown Location", every entry that was present
\* stays with its value, and main changes nothing in that step.
C19_CacheOnlyGrowsByWorker ==
    [][(CACHE' # CACHE /\ m_pc # "load") =>
          /\ w_pc = "return"
          /\ w_pc' = "publish"
          /\ UNCHANGED main_vars
          /\ \A k \in DOMAIN CACHE : k \in DOMAIN CACHE' /\ CACHE'[k] = CACHE[k]
          /\ \E k \in DOMAIN CACHE' \ DOMAIN CACHE :
                /\ DOMAIN CACHE' = DOMAIN CACHE \cup {k}
                /\ k = cache_key(cur.lat, cur.lon)
                /\ CACHE'[k] # UnknownLocation]_vars

\* The cache loaded with one entry has got a second one from the worker.
C19_Witness ==
    /\ Cardinality(DOMAIN cache_loaded) = 1
    /\ Cardinality(DOMAIN CACHE) = 2
    /\ \A k \in DOMAIN cache_loaded : CACHE[k] = cache_loaded[k]

\* The results the worker has published, received by main or not yet.
published == results \o result_queue

\* The worker holds an item whose result it has not published.
in_flight == w_pc \in {"geocode", "request", "return", "publish"}

\* C20: at most one resolution is in flight, and results are published in the
\* order of the enqueued items: the i-th published (and so the i-th received)
\* result carries the file, coordinate and date of the i-th enqueued item, so
\* no item has two results; the item in flight is the next one, and of the
\* items enqueued so far at most one is neither waiting nor published.
C20_OneInFlightInOrder ==
    /\ Len(published) <= enqueued
    /\ enqueued <= Len(gps_data)
    /\ \A i \in 1..Len(published) : item_of(published[i]) = gps_data[i]
    /\ in_flight =>
          /\ Len(published) < enqueued
          /\ cur = gps_data[Len(published) + 1]
    /\ enqueued - Len(published) - Len(request_queue) \in {0, 1}
    /\ in_flight => enqueued - Len(published) - Len(request_queue) = 1

\* Main has received the results of the first two items, in order, and the
\* worker is resolving the third.
C20_Witness ==
    /\ Len(results) = 2
    /\ Len(gps_data) = 3
    /\ w_pc = "geocode"
    /\ cur = gps_data[3]
    /\ request_queue = <<>>

====
